---- MODULE Spec2Model ----
(***************************************************************************)
(* A model of two parts of the streamer:                                   *)
(*   - the DRM output engine (src/src/v4p/drm.c, drm.h): the runtime      *)
(*     record, the public calls, the display and the kernel's page-flip   *)
(*     queue as environment;                                               *)
(*   - the stream loop (src/src/ustreamer/stream.c): the dispatcher, the   *)
(*     releaser threads, the encoder workers, the JPEG ring and the blank  *)
(*     fallback.                                                           *)
(* Each public call is one action; what the call reads from the operating  *)
(* system (a failing syscall, the modes of the connector) is an input      *)
(* drawn with \E.                                                          *)
(***************************************************************************)
EXTENDS Integers, Sequences, FiniteSets, TLC

VARIABLES
    run,        \* us_drm_runtime_s (drm.h:55-72)
    display,    \* first byte of the connector's sysfs status file: "c", "d", "u"
    kms,        \* kernel side of the DRM fd: [busy, events, undone]; undone = the last
                \* us_drm_close of buffers has left some of their resources unreleased
    monitor,    \* the display on the port: [modes, dpms], what its connector reports
    drm_call,   \* observation: the DRM call made by the last step (op = "env" if none)
    obs,        \* observation: counters of the current disconnection, caller
                \* discipline, us_drm_close calls in a row since the device was open
    srun,       \* us_stream_runtime_s: [stop, release_stop, last_online, last_as_blank_ts,
                \* http_last_request_ts, http_captured_fps]
    cfg,        \* us_stream_s options: [last_as_blank, slowdown, exit_on_no_clients]
    ring,       \* run->http_jpeg_ring: [free, filled, producer, consumer]
    disp,       \* us_stream_loop: its position and locals
    workers,    \* the encoder pool: per worker [hw, busy, failed, timely]
    releasers,  \* run->releasers and their threads: per index [pc, queue, hw]
    release_mutex,  \* run->release_mutex: 0, or 1 + the index of the releaser holding it
    device,     \* the capture device: [opened, queued], queued = buffers the driver holds
    now,        \* us_get_now_monotonic(), in whole seconds
    sobs,       \* observation: [published, lost, grabbed, subs, skipped, inited, alog]:
                \* the last frame put on the ring, the buffers whose release failed,
                \* the buffers grabbed so far, the _stream_release_buffer calls for
                \* each buffer since it was grabbed, the buffers released at once for
                \* fluency, the body of _stream_init_loop has run since it was called,
                \* its attempts to access the device
    bobs,       \* observation: the expose_frame calls since the last alive frame
    subsec,     \* us_get_now_monotonic(): the ticks passed of the second now
    xobs,       \* observation: the _stream_is_stopped calls and the exit timer
    cap,        \* us_stream_loop: the locals of the RUNNING loop that account frames
    cobs        \* observation: the frames of the RUNNING loop and what they were given

drm_vars == <<run, display, monitor, kms, drm_call, obs>>

capture_vars == <<subsec, xobs, cap, cobs>>

stream_vars ==
    <<srun, cfg, ring, disp, workers, releasers, release_mutex, device, now, sobs, bobs,
      capture_vars>>

vars == <<drm_vars, stream_vars>>

(***************************************************************************)
(* Bounds of the model.                                                    *)
(***************************************************************************)
MaxFlipEvents == 2      \* page-flip events the kernel queues on the fd unread
DevBufs == 2            \* dev->run->n_bufs of the capture devices tried
MaxOpens == 2           \* us_drm_open calls counted during one disconnection
NBufs == 2              \* stream->dev->run->n_bufs: capture buffers, one releaser each
NWorkers == 1           \* encoder workers of the pool
MaxNow == 5             \* the clock stops at this second
MaxCalls == 3           \* expose_frame(NULL) calls counted after a transition
TicksPerSecond == 4     \* the resolution of the monotonic clock
MaxExit == 2            \* the largest exit_on_no_clients tried
MaxFires == 2           \* firings of the exit timer counted
MaxFrames == 2          \* frames assigned within one second of the clock
MaxDelay == 1           \* the largest fluency delay of the pool, in ticks
MaxModes == 3           \* the longest conn->modes list given to _find_best_mode
MaxSubs == 2            \* _stream_release_buffer calls counted for one grabbed buffer
MaxErrno == 2           \* the distinct errno values access() fails with: 1..MaxErrno

(***************************************************************************)
(* Program constants.                                                      *)
(***************************************************************************)
US_DRM_STUB_USER == 1
US_DRM_STUB_BAD_RESOLUTION == 2
US_DRM_STUB_BAD_FORMAT == 3
StubBufs == 4
RingSlots == 4
SlowdownSteps == 10

(***************************************************************************)
(* Inputs: capture devices and connector mode lists.                       *)
(***************************************************************************)
\* dev == NULL
NoDev == [format |-> "NULL", width |-> 0, height |-> 0, hz |-> 0, n_bufs |-> 0]

\* dev->run: format, width, height, hz (milli-Hz here; the code keeps a float), n_bufs
Devs ==
    {NoDev} \cup
    { [format |-> f, width |-> g[1], height |-> g[2], hz |-> 60000, n_bufs |-> DevBufs] :
        f \in {"RGB24"},
        g \in {<<1920, 1080>>, <<1920, 1200>>, <<1280, 720>>} }
    \cup
    { [format |-> "YUYV", width |-> 1920, height |-> 1080, hz |-> 60000, n_bufs |-> DevBufs] }

\* drmModeModeInfo: the fields the code reads
Mode(h, v, clock, htotal, vtotal, il, pref) ==
    [hdisplay |-> h, vdisplay |-> v, clock |-> clock, htotal |-> htotal,
     vtotal |-> vtotal, interlace |-> il, dblscan |-> FALSE, vscan |-> 0,
     preferred |-> pref]

\* run->mode after calloc
NoMode == Mode(0, 0, 0, 1, 1, FALSE, FALSE)

M1080p60(pref) == Mode(1920, 1080, 148500, 2200, 1125, FALSE, pref)
M1080p50(pref) == Mode(1920, 1080, 148500, 2640, 1125, FALSE, pref)
M1200p60(pref) == Mode(1920, 1200, 154000, 2080, 1235, FALSE, pref)
M720p60(pref) == Mode(1280, 720, 74250, 1650, 750, FALSE, pref)

\* conn->modes of the displays tried
ModeLists ==
    { << >>,
      << M1080p60(TRUE) >>,
      << M1200p60(TRUE), M1080p60(FALSE) >>,
      << M1200p60(TRUE) >>,
      << M720p60(FALSE), M1080p50(TRUE), M1080p60(FALSE) >> }

(***************************************************************************)
(* DRM: mode selection (drm.c:616-655, 725-737).                           *)
(***************************************************************************)
\* clock * 1000000LL / htotal, the 64-bit product taken in parts that fit the
\* model checker's 32-bit integers
MillionTimesDiv(clock, htotal) ==
    LET a == (clock % htotal) * 1000 IN
    (clock \div htotal) * 1000000 + (a \div htotal) * 1000 + ((a % htotal) * 1000) \div htotal

\* the interlace, doublescan and vscan corrections of _get_refresh_rate
refresh_rate_adjust(mode, mhz) ==
    ((IF mode.interlace THEN mhz * 2 ELSE mhz) \div (IF mode.dblscan THEN 2 ELSE 1))
        \div (IF mode.vscan > 1 THEN mode.vscan ELSE 1)

\* _get_refresh_rate, in milli-Hz (the code returns mhz / 1000 as a float)
get_refresh_rate(mode) ==
    refresh_rate_adjust(mode,
        (MillionTimesDiv(mode.clock, mode.htotal) + mode.vtotal \div 2) \div mode.vtotal)

\* the loop's variables of _find_best_mode: indices into modes (0 for NULL),
\* and done = the loop was left by break
find_best_mode_start == [best |-> 0, closest |-> 0, pref |-> 0, done |-> FALSE]

\* drm.c:627-628: an exact match becomes best
find_best_mode_exact(mode, mi, width, height, l) ==
    IF mode.hdisplay = width /\ mode.vdisplay = height
    THEN [l EXCEPT !.best = mi] ELSE l

\* drm.c:633-637: a mode of the same width and a smaller height becomes
\* closest unless the closest so far already has the wanted rate
find_best_mode_closest(modes, mi, width, height, hz, l) ==
    IF /\ modes[mi].hdisplay = width
       /\ modes[mi].vdisplay < height
       /\ (l.closest = 0 \/ get_refresh_rate(modes[l.closest]) # hz * 1000)
    THEN [l EXCEPT !.closest = mi] ELSE l

\* drm.c:638-640: the first preferred mode
find_best_mode_pref(mode, mi, l) ==
    IF l.pref = 0 /\ mode.preferred THEN [l EXCEPT !.pref = mi] ELSE l

\* one iteration of the loop of _find_best_mode on modes[mi]; hz in whole Hz
find_best_mode_step(modes, mi, width, height, hz, l) ==
    IF l.done \/ modes[mi].interlace THEN l
    ELSE IF /\ modes[mi].hdisplay = width /\ modes[mi].vdisplay = height
            /\ hz > 0 /\ get_refresh_rate(modes[mi]) = hz * 1000
    THEN [find_best_mode_exact(modes[mi], mi, width, height, l) EXCEPT !.done = TRUE]
    ELSE find_best_mode_pref(modes[mi], mi,
            find_best_mode_closest(modes, mi, width, height, hz,
                find_best_mode_exact(modes[mi], mi, width, height, l)))

\* drm.c:643-651: best, else closest, else preferred, else the first mode
find_best_mode_pick(n_modes, l) ==
    IF l.best # 0 THEN l.best
    ELSE IF l.closest # 0 THEN l.closest
    ELSE IF l.pref # 0 THEN l.pref
    ELSE IF n_modes > 0 THEN 1 ELSE 0

\* _find_best_mode: the index of the mode chosen, 0 for NULL
find_best_mode(modes, width, height, hz) ==
    LET loop[mi \in 0..Len(modes)] ==
            IF mi = 0 THEN find_best_mode_start
            ELSE find_best_mode_step(modes, mi, width, height, hz, loop[mi - 1])
    IN  find_best_mode_pick(Len(modes), loop[Len(modes)])

(***************************************************************************)
(* DRM: the runtime and its helpers.                                       *)
(***************************************************************************)
\* us_drm_init: the runtime of a fresh us_drm_s
us_drm_init ==
    [status_fd |-> -1, fd |-> -1, crtc_id |-> 0, conn_id |-> 0, dpms_id |-> 0,
     mode |-> NoMode, bufs |-> << >>, n_bufs |-> 0, saved_crtc |-> FALSE,
     dpms_state |-> -1, opened_for_stub |-> FALSE, has_vsync |-> TRUE,
     exposing_dma_fd |-> -1, stub_n_buf |-> 0, unplugged_reported |-> FALSE]

\* us_drm_buffer_s after calloc; data is "NULL", "mapped" or "MAP_FAILED"
NoBuf == [dumb_created |-> FALSE, fb_added |-> FALSE, data |-> "NULL"]

\* dev->run->hw_bufs[index].dma_fd
DmaFd(index) == 10 + index

\* a faulty _drm_check_status that takes a disconnected display for a connected one
drm_check_status_blind(r, sysfs_ok, ch) ==
    IF ~sysfs_ok
    THEN [run |-> [r EXCEPT !.status_fd = -1], ret |-> -1]
    ELSE [run |-> [r EXCEPT !.status_fd = IF r.status_fd < 0 THEN 3 ELSE r.status_fd],
          ret |-> 0]

\* a faulty _drm_check_status that takes every byte but 'c' for a disconnection
drm_check_status_only_c(r, sysfs_ok, ch) ==
    IF ~sysfs_ok
    THEN [run |-> [r EXCEPT !.status_fd = -1], ret |-> -1]
    ELSE [run |-> [r EXCEPT !.status_fd = IF r.status_fd < 0 THEN 3 ELSE r.status_fd],
          ret |-> IF ch = "c" THEN 0 ELSE -2]

\* _drm_check_status: sysfs_ok = stat, open, read and lseek all succeed;
\* ch = the byte read
drm_check_status(r, sysfs_ok, ch) ==
    IF ~sysfs_ok
    THEN [run |-> [r EXCEPT !.status_fd = -1], ret |-> -1]
    ELSE [run |-> [r EXCEPT !.status_fd = IF r.status_fd < 0 THEN 3 ELSE r.status_fd],
          ret |-> IF ch = "d" THEN -2 ELSE 0]

\* a faulty _drm_ensure_dpms_power that does not record the state
drm_ensure_dpms_power_forgets(r, on) == r

\* _drm_ensure_dpms_power: the state is recorded whether or not the property
\* was set (a failing drmModeConnectorSetProperty is ignored)
drm_ensure_dpms_power(r, on) ==
    [r EXCEPT !.dpms_state = IF on THEN 1 ELSE 0]

\* the drmModeConnectorSetProperty call _drm_ensure_dpms_power makes
\* (drm.c:450-457): "on", "off", or "none" when the connector has no DPMS
\* property or the state recorded is already the wanted one
drm_dpms_property_set(r, on) ==
    IF r.dpms_id > 0 /\ r.dpms_state # (IF on THEN 1 ELSE 0)
    THEN (IF on THEN "on" ELSE "off")
    ELSE "none"

\* a faulty _drm_vsync_callback that leaves the descriptor recorded
drm_vsync_callback_keeps_fd(r) ==
    [r EXCEPT !.has_vsync = TRUE]

\* _drm_vsync_callback, through buf->ctx
drm_vsync_callback(r) ==
    [r EXCEPT !.has_vsync = TRUE, !.exposing_dma_fd = -1]

\* a faulty us_drm_wait_for_vsync that reports success when select() times out
us_drm_wait_for_vsync_timeout_ok(r, k, ch, io) ==
    LET st == drm_check_status(r, io # "sysfs_err", ch) IN
    IF st.ret # 0
    THEN [run |-> st.run, kms |-> k, ret |-> st.ret, cb |-> FALSE, dpms_set |-> "none"]
    ELSE
        LET r1 == drm_ensure_dpms_power(st.run, TRUE)
            set == drm_dpms_property_set(st.run, TRUE)
        IN
        IF r1.has_vsync \/ k.events = 0
        THEN [run |-> r1, kms |-> k, ret |-> 0, cb |-> FALSE, dpms_set |-> set]
        ELSE IF io \in {"select_err", "handle_err"}
        THEN [run |-> r1, kms |-> k, ret |-> -1, cb |-> FALSE, dpms_set |-> set]
        ELSE [run |-> drm_vsync_callback(r1), kms |-> [k EXCEPT !.events = 0],
              ret |-> 0, cb |-> TRUE, dpms_set |-> set]

\* us_drm_wait_for_vsync; io in WaitIO. select() finds the fd readable iff a
\* page-flip event is queued on it, and times out otherwise; drmHandleEvent
\* reads every queued event and runs the handler for it.
us_drm_wait_for_vsync(r, k, ch, io) ==
    LET st == drm_check_status(r, io # "sysfs_err", ch) IN
    IF st.ret # 0
    THEN [run |-> st.run, kms |-> k, ret |-> st.ret, cb |-> FALSE, dpms_set |-> "none"]
    ELSE
        LET r1 == drm_ensure_dpms_power(st.run, TRUE)
            set == drm_dpms_property_set(st.run, TRUE)
        IN
        IF r1.has_vsync
        THEN [run |-> r1, kms |-> k, ret |-> 0, cb |-> FALSE, dpms_set |-> set]
        ELSE IF io = "select_err" \/ k.events = 0
        THEN [run |-> r1, kms |-> k, ret |-> -1, cb |-> FALSE, dpms_set |-> set]
        ELSE IF io = "handle_err"
        THEN [run |-> r1, kms |-> k, ret |-> -1, cb |-> FALSE, dpms_set |-> set]
        ELSE [run |-> drm_vsync_callback(r1), kms |-> [k EXCEPT !.events = 0],
              ret |-> 0, cb |-> TRUE, dpms_set |-> set]

WaitIO == {"ok", "sysfs_err", "select_err", "handle_err"}

\* a faulty reset that leaves the DPMS state as it was
drm_close_reset_keeps_dpms(r) ==
    [r EXCEPT !.status_fd = -1, !.fd = -1, !.crtc_id = 0, !.has_vsync = TRUE,
              !.stub_n_buf = 0]

\* the reset of the runtime flags at the end of us_drm_close (drm.c:229-236)
drm_close_reset(r) ==
    [r EXCEPT !.status_fd = -1, !.fd = -1, !.crtc_id = 0, !.dpms_state = -1,
              !.has_vsync = TRUE, !.stub_n_buf = 0]

\* the loop of us_drm_close over the buffers (drm.c:208-227) runs to
\* run->n_bufs: for each of these buffers the framebuffer is removed if
\* added, the dumb buffer destroyed if created, the data unmapped if not
\* NULL; then the array is freed. undone = a buffer beyond n_bufs had a dumb
\* buffer created, a mapping or a framebuffer (was = what the last such
\* loop has left, kept when there is no array)
drm_close_buffers(r, was) ==
    IF r.bufs = << >> THEN [run |-> r, undone |-> was]
    ELSE [run |-> [r EXCEPT !.bufs = << >>, !.n_bufs = 0],
          undone |-> \E j \in 1..Len(r.bufs) :
                        /\ j > r.n_bufs
                        /\ (r.bufs[j].dumb_created \/ r.bufs[j].fb_added
                                \/ r.bufs[j].data = "mapped")]

\* us_drm_close; io is the input of the wait for vsync it may make. Closing
\* the fd drops the flips and events the kernel holds for it.
us_drm_close(r, k, ch, io) ==
    LET w == IF r.exposing_dma_fd >= 0
             THEN us_drm_wait_for_vsync(r, k, ch, io)
             ELSE [run |-> r, kms |-> k, ret |-> 0, cb |-> FALSE, dpms_set |-> "none"]
        r1 == [w.run EXCEPT !.exposing_dma_fd = -1]
        r2 == [r1 EXCEPT !.saved_crtc = FALSE]
        b == drm_close_buffers(r2, k.undone)
    IN  [run |-> drm_close_reset(b.run),
         kms |-> IF r.fd >= 0
                 THEN [busy |-> FALSE, events |-> 0, undone |-> b.undone]
                 ELSE [w.kms EXCEPT !.undone = b.undone],
         cb |-> w.cb, dpms_set |-> w.dpms_set]

(***************************************************************************)
(* DRM: us_drm_open (drm.c:93-182) and its helpers.                        *)
(***************************************************************************)
BufSteps == {"create", "map", "mmap", "addfb"}

\* What one us_drm_open finds: fail = the first call that fails ("none": no
\* call fails; "bufs": buffer initialisation fails at index bi, step bs).
OpenIO ==
    { [fail |-> f, bi |-> 0, bs |-> "create"] :
        f \in {"none", "sysfs", "open", "cap_dumb", "cap_prime", "res",
               "no_conn", "no_crtc", "setcrtc"} }
    \cup
    { [fail |-> "bufs", bi |-> i, bs |-> s] : i \in 0..(StubBufs - 1), s \in BufSteps }

\* a faulty choice of the stub that reports a bad format with the code of a
\* bad resolution
open_initial_stub_swapped(dev) ==
    IF dev = NoDev THEN US_DRM_STUB_USER
    ELSE IF dev.format # "RGB24" THEN US_DRM_STUB_BAD_RESOLUTION
    ELSE 0

\* the stub chosen from the device alone (drm.c:111-119)
open_initial_stub(dev) ==
    IF dev = NoDev THEN US_DRM_STUB_USER
    ELSE IF dev.format # "RGB24" THEN US_DRM_STUB_BAD_FORMAT
    ELSE 0

\* a faulty resolution check that refuses a source taller than the mode
open_check_resolution_taller(stub, width, height, mode) ==
    IF stub = 0 /\ (width # mode.hdisplay \/ height > mode.vdisplay)
    THEN US_DRM_STUB_BAD_RESOLUTION
    ELSE stub

\* the resolution check after the sink is found (drm.c:148-152)
open_check_resolution(stub, width, height, mode) ==
    IF stub = 0 /\ (width # mode.hdisplay \/ height < mode.vdisplay)
    THEN US_DRM_STUB_BAD_RESOLUTION
    ELSE stub

\* _drm_find_sink; connected = conn->connection == DRM_MODE_CONNECTED,
\* mon = the connector's modes and whether it has a DPMS property
drm_find_sink(r, width, height, hz, connected, mon, io) ==
    LET r0 == [r EXCEPT !.crtc_id = 0]
        best == find_best_mode(mon.modes, width, height, hz)
    IN
    IF io.fail \in {"res", "no_conn"} THEN [run |-> r0, ret |-> -1]
    ELSE IF ~connected THEN [run |-> r0, ret |-> -1]
    ELSE IF best = 0 THEN [run |-> r0, ret |-> -2]
    ELSE
        LET r1 == [r0 EXCEPT !.dpms_id = IF mon.dpms THEN 7 ELSE 0] IN
        IF io.fail = "no_crtc" THEN [run |-> r1, ret |-> -1]
        ELSE [run |-> [r1 EXCEPT !.crtc_id = 5, !.conn_id = 6, !.mode = mon.modes[best]],
              ret |-> 0]

\* _drm_init_buffers; dev = NoDev for the dumb (stub) buffers
drm_init_buffers(r, dev, io) ==
    LET n == IF dev = NoDev THEN StubBufs ELSE dev.n_bufs
        dumb == dev = NoDev
        fails == /\ io.fail = "bufs"
                 /\ io.bi < n
                 /\ (dumb \/ io.bs \in {"create", "addfb"})
        full == [dumb_created |-> dumb, fb_added |-> TRUE,
                 data |-> IF dumb THEN "mapped" ELSE "NULL"]
        partial == [dumb_created |-> dumb /\ io.bs # "create",
                    fb_added |-> FALSE,
                    data |-> IF ~dumb \/ io.bs \in {"create", "map"} THEN "NULL"
                             ELSE IF io.bs = "mmap" THEN "MAP_FAILED"
                             ELSE "mapped"]
    IN
    [run |-> [r EXCEPT
                !.bufs = [j \in 1..n |->
                            IF ~fails THEN full
                            ELSE IF j - 1 < io.bi THEN full
                            ELSE IF j - 1 = io.bi THEN partial
                            ELSE NoBuf],
                !.n_bufs = IF fails THEN io.bi ELSE n],
     ret |-> IF fails THEN -1 ELSE 0]

\* the error: label of us_drm_open
open_error(r, k, ch) ==
    LET c == us_drm_close(r, k, ch, "ok") IN
    [run |-> c.run, kms |-> c.kms, ret |-> -1, cb |-> c.cb, log |-> FALSE, closed |-> TRUE]

\* a faulty unplugged: label that logs without latching
open_unplugged_unlatched(r, k, ch) ==
    LET c == us_drm_close(r, k, ch, "ok") IN
    [run |-> c.run, kms |-> c.kms, ret |-> -2, cb |-> c.cb,
     log |-> ~r.unplugged_reported, closed |-> TRUE]

\* the unplugged: label of us_drm_open; log = "Display is not plugged" is logged
open_unplugged(r, k, ch) ==
    LET r1 == [r EXCEPT !.unplugged_reported = TRUE]
        c == us_drm_close(r1, k, ch, "ok")
    IN  [run |-> c.run, kms |-> c.kms, ret |-> -2, cb |-> c.cb,
         log |-> ~r.unplugged_reported, closed |-> TRUE]

\* the end of a successful us_drm_open (drm.c:165-169)
open_success(r, k, stub) ==
    [run |-> [r EXCEPT !.opened_for_stub = (stub > 0), !.exposing_dma_fd = -1,
                       !.unplugged_reported = FALSE],
     kms |-> [k EXCEPT !.undone = FALSE], ret |-> stub, cb |-> FALSE, log |-> FALSE,
     closed |-> FALSE]

\* us_drm_open; ch = the status byte of the display
us_drm_open(r, k, ch, mon, dev, io) ==
    LET st == drm_check_status(r, io.fail # "sysfs", ch) IN
    IF st.ret = -2 THEN open_unplugged(st.run, k, ch)
    ELSE IF st.ret # 0 THEN open_error(st.run, k, ch)
    ELSE IF io.fail = "open" THEN open_error(st.run, k, ch)
    ELSE
        LET r2 == [st.run EXCEPT !.fd = 4]
            stub0 == open_initial_stub(dev)
            width == IF stub0 > 0 THEN 0 ELSE dev.width
            height == IF stub0 > 0 THEN 0 ELSE dev.height
            hz == IF stub0 > 0 THEN 0 ELSE dev.hz \div 1000
            sink == drm_find_sink(r2, width, height, hz, ch = "c", mon, io)
            stub == open_check_resolution(stub0, width, height, sink.run.mode)
            bufs == drm_init_buffers(sink.run, IF stub > 0 THEN NoDev ELSE dev, io)
        IN
        IF io.fail = "cap_dumb" \/ (stub0 = 0 /\ io.fail = "cap_prime")
        THEN open_error(r2, k, ch)
        ELSE IF sink.ret = -2 THEN open_unplugged(sink.run, k, ch)
        ELSE IF sink.ret # 0 THEN open_error(sink.run, k, ch)
        ELSE IF bufs.ret < 0 THEN open_error(bufs.run, k, ch)
        ELSE IF io.fail = "setcrtc"
        THEN open_error([bufs.run EXCEPT !.saved_crtc = TRUE], k, ch)
        ELSE open_success([bufs.run EXCEPT !.saved_crtc = TRUE], k, stub)

(***************************************************************************)
(* DRM: the page-flip calls and DPMS (drm.c:243-255, 311-406).             *)
(***************************************************************************)
ExposeIO == {"ok", "sysfs_err", "flip_err"}

\* drmModePageFlip: the kernel refuses a flip (EBUSY) while the previous one
\* has not completed; returns [kms, ret]
drmModePageFlip(k, io) ==
    IF io = "flip_err" THEN [kms |-> k, ret |-> -22]
    ELSE IF k.busy THEN [kms |-> k, ret |-> -16]
    ELSE [kms |-> [k EXCEPT !.busy = TRUE], ret |-> 0]

\* us_drm_expose_stub
us_drm_expose_stub(r, k, ch, io) ==
    LET st == drm_check_status(r, io # "sysfs_err", ch) IN
    IF st.ret # 0 THEN [run |-> st.run, kms |-> k, ret |-> st.ret, dpms_set |-> "none"]
    ELSE
        LET r1 == drm_ensure_dpms_power(st.run, TRUE)
            r2 == [r1 EXCEPT !.has_vsync = FALSE]
            f == drmModePageFlip(k, io)
        IN  [run |-> [r2 EXCEPT !.stub_n_buf = (r2.stub_n_buf + 1) % r2.n_bufs],
             kms |-> f.kms, ret |-> f.ret,
             dpms_set |-> drm_dpms_property_set(st.run, TRUE)]

\* a faulty us_drm_expose_dma that leaves has_vsync as it was
us_drm_expose_dma_keeps_vsync(r, k, ch, index, io) ==
    LET st == drm_check_status(r, io # "sysfs_err", ch) IN
    IF st.ret # 0 THEN [run |-> st.run, kms |-> k, ret |-> st.ret, dpms_set |-> "none"]
    ELSE
        LET r1 == drm_ensure_dpms_power(st.run, TRUE)
            f == drmModePageFlip(k, io)
        IN  [run |-> [r1 EXCEPT !.exposing_dma_fd = DmaFd(index)],
             kms |-> f.kms, ret |-> f.ret,
             dpms_set |-> drm_dpms_property_set(st.run, TRUE)]

\* us_drm_expose_dma of the hw buffer with the given index
us_drm_expose_dma(r, k, ch, index, io) ==
    LET st == drm_check_status(r, io # "sysfs_err", ch) IN
    IF st.ret # 0 THEN [run |-> st.run, kms |-> k, ret |-> st.ret, dpms_set |-> "none"]
    ELSE
        LET r1 == drm_ensure_dpms_power(st.run, TRUE)
            r2 == [r1 EXCEPT !.has_vsync = FALSE]
            f == drmModePageFlip(k, io)
        IN  [run |-> [r2 EXCEPT !.exposing_dma_fd = DmaFd(index)],
             kms |-> f.kms, ret |-> f.ret,
             dpms_set |-> drm_dpms_property_set(st.run, TRUE)]

\* us_drm_dpms_power_off
us_drm_dpms_power_off(r, sysfs_ok, ch) ==
    LET st == drm_check_status(r, sysfs_ok, ch) IN
    IF st.ret = 0
    THEN [run |-> drm_ensure_dpms_power(st.run, FALSE), ret |-> 0,
          dpms_set |-> drm_dpms_property_set(st.run, FALSE)]
    ELSE IF st.ret = -2 THEN [run |-> st.run, ret |-> 0, dpms_set |-> "none"]
    ELSE [run |-> st.run, ret |-> -1, dpms_set |-> "none"]

(***************************************************************************)
(* DRM: the actions. A call whose assertion would fail is not made.        *)
(***************************************************************************)
\* no DRM call in this step
EnvCall ==
    [op |-> "env", ret |-> 0, cb |-> FALSE, closed |-> FALSE, log |-> FALSE,
     ch |-> "-", dev |-> NoDev, dpms_set |-> "none", conn |-> "-"]

Call(op, ret, cb, closed, ch) ==
    [EnvCall EXCEPT !.op = op, !.ret = ret, !.cb = cb, !.closed = closed, !.ch = ch]

\* the byte a call's status check reads
StatusRead(sysfs_ok) == IF sysfs_ok THEN display ELSE "err"

\* an expose that passes the status check while the previous flip was not
\* waited for breaks the caller's discipline; a close restores it
ObsExpose(passed) ==
    [obs EXCEPT !.raced = @ \/ (passed /\ ~run.has_vsync)]

\* conn->connection of the connector of the port as _drm_find_sink reads it
\* (drm.c:572); "-" when us_drm_open ends before it has a connector
SinkConnection(ch, dev, io) ==
    IF \/ drm_check_status(run, io.fail # "sysfs", ch).ret # 0
       \/ io.fail \in {"open", "cap_dumb", "res", "no_conn"}
       \/ (io.fail = "cap_prime" /\ open_initial_stub(dev) = 0)
    THEN "-"
    ELSE IF ch = "c" THEN "connected" ELSE "not_connected"

DrmOpen ==
    /\ run.fd < 0
    /\ \E dev \in Devs, io \in OpenIO :
        LET o == us_drm_open(run, kms, display, monitor, dev, io)
            ch == StatusRead(io.fail # "sysfs")
        IN  /\ run' = o.run
            /\ kms' = o.kms
            /\ drm_call' = [Call("open", o.ret, o.cb, o.closed, ch) EXCEPT
                                !.log = o.log, !.dev = dev,
                                !.conn = SinkConnection(display, dev, io)]
            /\ obs' = [obs EXCEPT
                        !.opens = IF ch = "d" /\ @ < MaxOpens THEN @ + 1 ELSE @,
                        !.logs = IF ch = "d" /\ o.log /\ @ < MaxOpens THEN @ + 1 ELSE @,
                        !.raced = FALSE,
                        !.closes = 0]
    /\ UNCHANGED <<display, monitor, stream_vars>>

DrmClose ==
    /\ \E io \in WaitIO :
        LET c == us_drm_close(run, kms, display, io) IN
        /\ run' = c.run
        /\ kms' = c.kms
        /\ drm_call' = [Call("close", 0, c.cb, TRUE,
                             IF run.exposing_dma_fd >= 0
                             THEN StatusRead(io # "sysfs_err") ELSE "-")
                            EXCEPT !.dpms_set = c.dpms_set]
    /\ obs' = [obs EXCEPT !.raced = FALSE,
                          !.closes = IF run.fd >= 0 THEN 1 ELSE IF @ = 1 THEN 2 ELSE @]
    /\ UNCHANGED <<display, monitor, stream_vars>>

DrmWaitForVsync ==
    /\ run.fd >= 0
    /\ \E io \in WaitIO :
        LET w == us_drm_wait_for_vsync(run, kms, display, io) IN
        /\ run' = w.run
        /\ kms' = w.kms
        /\ drm_call' = [Call("wait_for_vsync", w.ret, w.cb, FALSE,
                             StatusRead(io # "sysfs_err"))
                            EXCEPT !.dpms_set = w.dpms_set]
    /\ UNCHANGED <<display, monitor, obs, stream_vars>>

DrmExposeStub ==
    /\ run.fd >= 0
    /\ run.opened_for_stub
    /\ \E io \in ExposeIO :
        LET e == us_drm_expose_stub(run, kms, display, io)
            ch == StatusRead(io # "sysfs_err")
        IN  /\ run' = e.run
            /\ kms' = e.kms
            /\ drm_call' = [Call("expose_stub", e.ret, FALSE, FALSE, ch)
                                EXCEPT !.dpms_set = e.dpms_set]
            /\ obs' = ObsExpose(ch \notin {"d", "err"})
    /\ UNCHANGED <<display, monitor, stream_vars>>

DrmExposeDma ==
    /\ run.fd >= 0
    /\ ~run.opened_for_stub
    /\ \E io \in ExposeIO, index \in 0..(run.n_bufs - 1) :
        LET e == us_drm_expose_dma(run, kms, display, index, io)
            ch == StatusRead(io # "sysfs_err")
        IN  /\ run' = e.run
            /\ kms' = e.kms
            /\ drm_call' = [Call("expose_dma", e.ret, FALSE, FALSE, ch)
                                EXCEPT !.dpms_set = e.dpms_set]
            /\ obs' = ObsExpose(ch \notin {"d", "err"})
    /\ UNCHANGED <<display, monitor, stream_vars>>

DrmDpmsPowerOff ==
    /\ run.fd >= 0
    /\ \E sysfs_ok \in BOOLEAN :
        LET p == us_drm_dpms_power_off(run, sysfs_ok, display) IN
        /\ run' = p.run
        /\ drm_call' = [Call("dpms_power_off", p.ret, FALSE, FALSE, StatusRead(sysfs_ok))
                            EXCEPT !.dpms_set = p.dpms_set]
    /\ UNCHANGED <<display, monitor, kms, obs, stream_vars>>

\* the display is plugged, unplugged, or its state becomes unknown
DisplayChange ==
    /\ \E ch \in {"c", "d", "u"} \ {display} :
        /\ display' = ch
        /\ obs' = [obs EXCEPT !.opens = 0, !.logs = 0,
                              !.latched = (ch = "d" /\ run.unplugged_reported)]
    /\ drm_call' = EnvCall
    /\ UNCHANGED <<run, monitor, kms, stream_vars>>

\* the kernel completes the pending flip and queues its event on the fd
FlipComplete ==
    /\ kms.busy
    /\ kms.events < MaxFlipEvents
    /\ kms' = [kms EXCEPT !.busy = FALSE, !.events = kms.events + 1]
    /\ drm_call' = EnvCall
    /\ UNCHANGED <<run, display, monitor, obs, stream_vars>>

(***************************************************************************)
(* Stream loop: the runtime, the ring and the choice of the frame to       *)
(* publish (stream.c:84-106, 358-418).                                      *)
(***************************************************************************)
\* run after us_stream_init
us_stream_init ==
    [stop |-> FALSE, release_stop |-> FALSE, last_online |-> FALSE, last_as_blank_ts |-> 0,
     http_last_request_ts |-> 0, http_captured_fps |-> 0]

\* the ring after US_RING_INIT_WITH_ITEMS(run->http_jpeg_ring, 4, ...): the
\* numbers of free and filled slots, and whether the producer and the
\* consumer hold a slot
ring_init == [free |-> RingSlots, filled |-> 0, producer |-> FALSE, consumer |-> FALSE]

\* us_ring_producer_acquire(ring, 0): a slot if one is free, else -1
ring_producer_acquire(rg) ==
    IF rg.free > 0 /\ ~rg.producer
    THEN [ring |-> [rg EXCEPT !.free = @ - 1, !.producer = TRUE], ri |-> 0]
    ELSE [ring |-> rg, ri |-> -1]

\* us_ring_producer_release
ring_producer_release(rg) ==
    [rg EXCEPT !.filled = @ + 1, !.producer = FALSE]

\* a faulty _stream_is_stopped that never sees the stop flag
stream_is_stopped_blind(r) == FALSE

\* _stream_is_stopped with exit_on_no_clients == 0
stream_is_stopped(r) == r.stop

\* a faulty timer check that does not compare the deadline with the clock
expose_check_timer_early(res, last_as_blank, now2) ==
    IF last_as_blank > 0 /\ res.run.last_as_blank_ts # 0
    THEN [run |-> [res.run EXCEPT !.last_as_blank_ts = 0], new |-> "blank"]
    ELSE res

\* the timer check of _stream_expose_frame (stream.c:384-392); now2 = the
\* clock read at line 387; res = [run, new] so far
expose_check_timer(res, last_as_blank, now2) ==
    IF /\ last_as_blank > 0
       /\ res.run.last_as_blank_ts # 0
       /\ res.run.last_as_blank_ts < now2
    THEN [run |-> [res.run EXCEPT !.last_as_blank_ts = 0], new |-> "blank"]
    ELSE res

\* the online to offline branch of _stream_expose_frame (stream.c:369-382);
\* now1 = the clock read at line 374
expose_offline(r, last_as_blank, now1) ==
    IF r.last_online
    THEN IF last_as_blank < 0 THEN [run |-> r, new |-> "blank"]
         ELSE IF last_as_blank > 0
         THEN [run |-> [r EXCEPT !.last_as_blank_ts = now1 + last_as_blank], new |-> "NULL"]
         ELSE [run |-> r, new |-> "NULL"]
    ELSE IF last_as_blank < 0 THEN [run |-> r, new |-> "blank"]
    ELSE [run |-> r, new |-> "NULL"]

\* _stream_expose_frame up to line 393: the frame to publish, new in
\* {"NULL", "frame", "blank"}; alive = (frame != NULL)
expose_choose(r, alive, last_as_blank, now1, now2) ==
    IF alive
    THEN [run |-> [r EXCEPT !.last_as_blank_ts = 0], new |-> "frame"]
    ELSE expose_check_timer(expose_offline(r, last_as_blank, now1), last_as_blank, now2)

\* a faulty write of the slot that leaves it as it was when new is NULL
expose_dest_untouched(new) == new

\* what the slot holds after stream.c:406-413: a dead frame (used = 0,
\* online = false) when new is NULL
expose_dest(new) == IF new = "NULL" THEN "dead" ELSE new

\* stream.c:414: run->last_online = (frame != NULL)
expose_finish(r, alive) == [r EXCEPT !.last_online = alive]

(***************************************************************************)
(* Stream loop: the dispatcher us_stream_loop (stream.c:116-238), one      *)
(* action per step between two accesses to shared state.                   *)
(***************************************************************************)
Bufs == 0..(NBufs - 1)
Workers == 1..NWorkers
NoHw == -1
NoWr == 0

\* the dispatcher before us_stream_loop enters its first _stream_init_loop;
\* access_errno is the local of _stream_init_loop (stream.c:312)
disp_init ==
    [pc |-> "init_top", ready_wr |-> NoWr, hw |-> NoHw, alive |-> FALSE,
     new |-> "NULL", count |-> 0, index |-> 0, access_errno |-> 0]

\* the errno values of a failed access()
Errnos == 1..MaxErrno

\* the attempts of one call of _stream_init_loop: errno = that of the last
\* attempt's access() (0: it succeeded, or no attempt yet); last_logged =
\* the errno of the last failure logged (0: none); logged = the last attempt
\* has logged "Can't access device"; run_logs = the entries logged in the
\* current run of consecutive failures with one errno, up to 2
alog_init == [errno |-> 0, last_logged |-> 0, logged |-> FALSE, run_logs |-> 0]

ObsAccess(o, errno, logged) ==
    [errno |-> errno,
     last_logged |-> IF logged THEN errno ELSE o.last_logged,
     logged |-> logged,
     run_logs |-> IF errno = 0 THEN 0
                  ELSE IF errno # o.errno THEN (IF logged THEN 1 ELSE 0)
                  ELSE IF logged /\ o.run_logs < 2 THEN o.run_logs + 1 ELSE o.run_logs]

\* a faulty _stream_init_loop that logs every failure of access()
init_access_failed_logs_all(access_errno, errno) ==
    [log |-> TRUE, access_errno |-> errno]

\* _stream_init_loop, stream.c:328-335: access() has failed with errno
init_access_failed(access_errno, errno) ==
    IF access_errno # errno
    THEN [log |-> TRUE, access_errno |-> errno]
    ELSE [log |-> FALSE, access_errno |-> access_errno]

\* a worker of a pool just opened: idle, no job
\* no buffer was given to _stream_release_buffer yet
subs_init == [i \in Bufs |-> 0]

worker_init == [hw |-> NoHw, busy |-> FALSE, failed |-> FALSE, timely |-> FALSE]

\* a releaser: pc = "none" when no thread exists; queue = the 1-deep queue
releaser_init == [pc |-> "none", queue |-> << >>, hw |-> NoHw]

\* where _stream_expose_frame returns to: the RUNNING loop exposes alive
\* frames (stream.c:162), _stream_init_loop exposes NULL (stream.c:323)
expose_return_pc(alive) == IF alive THEN "slowdown" ELSE "init_access"

\* us_stream_loop_break
LoopBreak ==
    /\ srun' = [srun EXCEPT !.stop = TRUE]
    /\ UNCHANGED <<cfg, ring, disp, workers, releasers, release_mutex, device, now, sobs, bobs>>
    /\ UNCHANGED <<drm_vars, capture_vars>>

\* _stream_init_loop: the loop condition, then the blank is drawn and
\* _stream_expose_frame(stream, NULL) chooses what to publish
InitLoopTop ==
    /\ disp.pc = "init_top"
    /\ IF stream_is_stopped(srun)
       THEN /\ disp' = [disp EXCEPT !.pc = "done"]
            /\ srun' = srun
            /\ sobs' = sobs
       ELSE LET ch == expose_choose(srun, FALSE, cfg.last_as_blank, now, now) IN
            /\ srun' = ch.run
            /\ disp' = [disp EXCEPT !.pc = "expose_retry", !.alive = FALSE, !.new = ch.new]
            /\ sobs' = [sobs EXCEPT !.inited = TRUE]
    /\ UNCHANGED <<cfg, ring, workers, releasers, release_mutex, device, now, bobs>>
    /\ UNCHANGED <<drm_vars, capture_vars>>

\* a faulty _stream_expose_frame that gives up when the ring has no free slot
ExposeRetryGivesUp ==
    /\ disp.pc = "expose_retry"
    /\ IF stream_is_stopped(srun) \/ ring_producer_acquire(ring).ri < 0
       THEN /\ disp' = [disp EXCEPT !.pc = expose_return_pc(disp.alive)]
            /\ ring' = ring
       ELSE /\ ring' = ring_producer_acquire(ring).ring
            /\ disp' = [disp EXCEPT !.pc = "expose_write"]
    /\ UNCHANGED <<srun, cfg, workers, releasers, release_mutex, device, now, sobs, bobs>>
    /\ UNCHANGED <<drm_vars, capture_vars>>

\* _stream_expose_frame, one turn of the loop at stream.c:396-401 and the
\* test at 402: stopped, a slot acquired, or "no free slots" and once more
ExposeRetry ==
    /\ disp.pc = "expose_retry"
    /\ IF stream_is_stopped(srun)
       THEN /\ disp' = [disp EXCEPT !.pc = expose_return_pc(disp.alive)]
            /\ ring' = ring
       ELSE /\ ring' = ring_producer_acquire(ring).ring
            /\ disp' = [disp EXCEPT !.pc = IF ring_producer_acquire(ring).ri >= 0
                                             THEN "expose_write" ELSE "expose_retry"]
    /\ UNCHANGED <<srun, cfg, workers, releasers, release_mutex, device, now, sobs, bobs>>
    /\ UNCHANGED <<drm_vars, capture_vars>>

\* _stream_expose_frame, stream.c:406-417: the slot is written and released
ExposeWrite ==
    /\ disp.pc = "expose_write"
    /\ srun' = expose_finish(srun, disp.alive)
    /\ ring' = ring_producer_release(ring)
    /\ sobs' = [sobs EXCEPT !.published = expose_dest(disp.new)]
    /\ disp' = [disp EXCEPT !.pc = expose_return_pc(disp.alive)]
    /\ UNCHANGED <<cfg, workers, releasers, release_mutex, device, now, bobs>>
    /\ UNCHANGED <<drm_vars, capture_vars>>

\* _stream_init_loop, stream.c:328-349: access() fails with an errno, or
\* succeeds and access_errno is cleared before us_device_open and
\* us_encoder_open; an opened device has every buffer queued in the driver
InitAccess ==
    /\ disp.pc = "init_access"
    /\ \/ \E errno \in Errnos :
            /\ disp' = [disp EXCEPT !.pc = "init_sleep",
                                     !.access_errno = init_access_failed(@, errno).access_errno]
            /\ sobs' = [sobs EXCEPT !.alog =
                            ObsAccess(@, errno, init_access_failed(disp.access_errno, errno).log)]
            /\ UNCHANGED <<device, workers>>
       \/ \E opened \in BOOLEAN :
            IF opened
            THEN /\ device' = [opened |-> TRUE, queued |-> Bufs]
                 /\ workers' = [w \in Workers |-> worker_init]
                 /\ disp' = [disp EXCEPT !.pc = "start_releasers", !.access_errno = 0]
                 /\ sobs' = [sobs EXCEPT !.alog = alog_init]
            ELSE /\ disp' = [disp EXCEPT !.pc = "init_sleep", !.access_errno = 0]
                 /\ sobs' = [sobs EXCEPT !.alog = ObsAccess(@, 0, FALSE)]
                 /\ UNCHANGED <<device, workers>>
    /\ UNCHANGED <<srun, cfg, ring, releasers, release_mutex, now, bobs>>
    /\ UNCHANGED <<drm_vars, capture_vars>>

\* _stream_init_loop, stream.c:352-353: sleep(error_delay) returns
InitSleep ==
    /\ disp.pc = "init_sleep"
    /\ disp' = [disp EXCEPT !.pc = "init_top"]
    /\ UNCHANGED <<srun, cfg, ring, workers, releasers, release_mutex, device, now, sobs, bobs>>
    /\ UNCHANGED <<drm_vars, capture_vars>>

\* stream.c:129-140: a queue and a thread for every buffer index
StartReleasers ==
    /\ disp.pc = "start_releasers"
    /\ releasers' = [i \in Bufs |-> [pc |-> "check", queue |-> << >>, hw |-> NoHw]]
    /\ disp' = [disp EXCEPT !.pc = "run_top"]
    /\ UNCHANGED <<srun, cfg, ring, workers, release_mutex, device, now, sobs, bobs>>
    /\ UNCHANGED <<drm_vars, capture_vars>>

\* stream.c:149: the condition of the RUNNING loop
RunTop ==
    /\ disp.pc = "run_top"
    /\ disp' = [disp EXCEPT !.pc = IF stream_is_stopped(srun) \/ srun.release_stop
                                     THEN "close" ELSE "wait"]
    /\ UNCHANGED <<srun, cfg, ring, workers, releasers, release_mutex, device, now, sobs, bobs>>
    /\ UNCHANGED <<drm_vars, capture_vars>>

\* stream.c:153-156: us_workers_pool_wait returns a worker that is not busy
PoolWait ==
    /\ disp.pc = "wait"
    /\ \E w \in Workers :
        /\ ~workers[w].busy
        /\ disp' = [disp EXCEPT !.ready_wr = w,
                                 !.pc = IF workers[w].hw # NoHw THEN "release" ELSE "slowdown"]
    /\ UNCHANGED <<srun, cfg, ring, workers, releasers, release_mutex, device, now, sobs, bobs>>
    /\ UNCHANGED <<drm_vars, capture_vars>>

\* observation: _stream_release_buffer is called for the buffer hw; subs
\* counts the calls since the buffer was grabbed, skipped holds the buffers
\* released at once for fluency
ObsSubmit(o, hw, skip) ==
    [o EXCEPT !.subs[hw] = IF @ < MaxSubs THEN @ + 1 ELSE @,
              !.skipped = IF skip THEN @ \cup {hw} ELSE @]

\* a faulty _stream_release_buffer that forgets the buffer
stream_release_buffer_drops(rel, hw) == [releasers |-> rel, ok |-> TRUE]

\* _stream_release_buffer: us_queue_put(queue, hw, 0) on the queue of the
\* buffer's index; the put fails on a full queue and the assertion aborts
stream_release_buffer(rel, hw) ==
    IF Len(rel[hw].queue) < 1
    THEN [releasers |-> [rel EXCEPT ![hw].queue = Append(@, hw)], ok |-> TRUE]
    ELSE [releasers |-> rel, ok |-> FALSE]

\* stream.c:157: the buffer of the ready worker's last job goes to its releaser
ReleaseReady ==
    /\ disp.pc = "release"
    /\ releasers' = stream_release_buffer(releasers, workers[disp.ready_wr].hw).releasers
    /\ disp' = [disp EXCEPT !.pc =
                    IF stream_release_buffer(releasers, workers[disp.ready_wr].hw).ok
                    THEN "clear" ELSE "aborted"]
    /\ sobs' = ObsSubmit(sobs, workers[disp.ready_wr].hw, FALSE)
    /\ UNCHANGED <<srun, cfg, ring, workers, release_mutex, device, now, bobs>>
    /\ UNCHANGED <<drm_vars, capture_vars>>

\* a faulty dispatcher that exposes the frame of a job that was not timely
ClearReadyExposesLate ==
    /\ disp.pc = "clear"
    /\ workers' = [workers EXCEPT ![disp.ready_wr] = worker_init]
    /\ IF ~workers[disp.ready_wr].failed
       THEN /\ srun' = expose_choose(srun, TRUE, cfg.last_as_blank, now, now).run
            /\ disp' = [disp EXCEPT !.pc = "expose_retry", !.alive = TRUE, !.new = "frame"]
       ELSE /\ srun' = srun
            /\ disp' = [disp EXCEPT !.pc = "slowdown"]
    /\ UNCHANGED <<cfg, ring, releasers, release_mutex, device, now, sobs, bobs>>
    /\ UNCHANGED <<drm_vars, capture_vars>>

\* a faulty dispatcher that leaves the released buffer on the worker's job
ClearReadyKeepsHw ==
    /\ disp.pc = "clear"
    /\ workers' = [workers EXCEPT ![disp.ready_wr] =
                        [worker_init EXCEPT !.hw = workers[disp.ready_wr].hw]]
    /\ IF ~workers[disp.ready_wr].failed /\ workers[disp.ready_wr].timely
       THEN /\ srun' = expose_choose(srun, TRUE, cfg.last_as_blank, now, now).run
            /\ disp' = [disp EXCEPT !.pc = "expose_retry", !.alive = TRUE, !.new = "frame"]
       ELSE /\ srun' = srun
            /\ disp' = [disp EXCEPT !.pc = "slowdown"]
    /\ UNCHANGED <<cfg, ring, releasers, release_mutex, device, now, sobs, bobs>>
    /\ UNCHANGED <<drm_vars, capture_vars>>

\* stream.c:158-167: job->hw = NULL, then the encoded frame is exposed if
\* the job was done and timely; _stream_expose_frame(frame) chooses the
\* frame. The status of the job is not read again before the next job ends,
\* so the worker is kept as an idle one.
ClearReady ==
    /\ disp.pc = "clear"
    /\ workers' = [workers EXCEPT ![disp.ready_wr] = worker_init]
    /\ IF ~workers[disp.ready_wr].failed /\ workers[disp.ready_wr].timely
       THEN /\ srun' = expose_choose(srun, TRUE, cfg.last_as_blank, now, now).run
            /\ disp' = [disp EXCEPT !.pc = "expose_retry", !.alive = TRUE, !.new = "frame"]
       ELSE /\ srun' = srun
            /\ disp' = [disp EXCEPT !.pc = "slowdown"]
    /\ UNCHANGED <<cfg, ring, releasers, release_mutex, device, now, sobs, bobs>>
    /\ UNCHANGED <<drm_vars, capture_vars>>

\* _stream_slowdown: one test of its loop condition; clients = what
\* _stream_has_any_clients returns
Slowdown ==
    /\ disp.pc = "slowdown"
    /\ \E clients \in BOOLEAN :
        IF cfg.slowdown /\ disp.count < SlowdownSteps /\ ~stream_is_stopped(srun) /\ ~clients
        THEN disp' = [disp EXCEPT !.count = @ + 1]
        ELSE disp' = [disp EXCEPT !.count = 0, !.pc = "after_slowdown"]
    /\ UNCHANGED <<srun, cfg, ring, workers, releasers, release_mutex, device, now, sobs, bobs>>
    /\ UNCHANGED <<drm_vars, capture_vars>>

\* stream.c:171-173
AfterSlowdown ==
    /\ disp.pc = "after_slowdown"
    /\ disp' = [disp EXCEPT !.pc = IF stream_is_stopped(srun) THEN "close" ELSE "grab"]
    /\ UNCHANGED <<srun, cfg, ring, workers, releasers, release_mutex, device, now, sobs, bobs>>
    /\ UNCHANGED <<drm_vars, capture_vars>>

\* stream.c:175-182: us_device_grab_buffer dequeues a buffer the driver
\* holds, or reports a broken frame (-3), a timeout (-2) or an error (-1)
Grab ==
    /\ disp.pc = "grab"
    /\ \/ \E i \in device.queued :
            /\ device' = [device EXCEPT !.queued = @ \ {i}]
            /\ disp' = [disp EXCEPT !.hw = i, !.pc = "pace"]
            /\ sobs' = [sobs EXCEPT !.grabbed = @ \cup {i}, !.subs[i] = 0,
                                    !.skipped = @ \ {i}]
       \/ \E buf_index \in {-3, -2, -1} :
            /\ device' = device
            /\ disp' = [disp EXCEPT !.pc = IF buf_index = -3 THEN "run_top" ELSE "close"]
            /\ sobs' = sobs
    /\ UNCHANGED <<srun, cfg, ring, workers, releasers, release_mutex, now, bobs>>
    /\ UNCHANGED <<drm_vars, capture_vars>>

\* stream.c:188-217: a frame that comes before grab_after is released at
\* once, any other is put on the ready worker's job and assigned
Pace ==
    /\ disp.pc = "pace"
    /\ \E passed \in BOOLEAN :
        IF passed
        THEN /\ releasers' = stream_release_buffer(releasers, disp.hw).releasers
             /\ disp' = [disp EXCEPT !.hw = NoHw, !.pc =
                            IF stream_release_buffer(releasers, disp.hw).ok
                            THEN "run_top" ELSE "aborted"]
             /\ workers' = workers
             /\ sobs' = ObsSubmit(sobs, disp.hw, TRUE)
        ELSE /\ workers' = [workers EXCEPT ![disp.ready_wr] =
                                [hw |-> disp.hw, busy |-> TRUE, failed |-> FALSE, timely |-> FALSE]]
             /\ disp' = [disp EXCEPT !.hw = NoHw, !.pc = "run_top"]
             /\ releasers' = releasers
             /\ sobs' = sobs
    /\ UNCHANGED <<srun, cfg, ring, release_mutex, device, now, bobs>>
    /\ UNCHANGED <<drm_vars, capture_vars>>

\* stream.c:221: the close: label
Close ==
    /\ disp.pc = "close"
    /\ srun' = [srun EXCEPT !.release_stop = TRUE]
    /\ disp' = [disp EXCEPT !.pc = "join", !.index = 0]
    /\ UNCHANGED <<cfg, ring, workers, releasers, release_mutex, device, now, sobs, bobs>>
    /\ UNCHANGED <<drm_vars, capture_vars>>

\* stream.c:222-225: the thread of the index is joined, its queue destroyed
Join ==
    /\ disp.pc = "join"
    /\ releasers[disp.index].pc = "exited"
    /\ releasers' = [releasers EXCEPT ![disp.index] = releaser_init]
    /\ disp' = [disp EXCEPT !.index = @ + 1,
                             !.pc = IF disp.index + 1 < NBufs THEN "join" ELSE "reopen"]
    /\ UNCHANGED <<srun, cfg, ring, workers, release_mutex, device, now, sobs, bobs>>
    /\ UNCHANGED <<drm_vars, capture_vars>>

\* a faulty teardown after which us_stream_loop returns
ReopenTerminates ==
    /\ disp.pc = "reopen"
    /\ srun' = [srun EXCEPT !.release_stop = FALSE]
    /\ workers' = [w \in Workers |-> worker_init]
    /\ device' = [opened |-> FALSE, queued |-> {}]
    /\ disp' = [disp_init EXCEPT !.pc = "done"]
    /\ sobs' = [sobs EXCEPT !.lost = {}, !.grabbed = {}, !.subs = subs_init,
                            !.skipped = {}, !.inited = FALSE]
    /\ UNCHANGED <<cfg, ring, releasers, release_mutex, now, bobs>>
    /\ UNCHANGED <<drm_vars, capture_vars>>

\* stream.c:226-230: release_stop is cleared, the encoder and the device
\* are closed, and the outer loop calls _stream_init_loop again
Reopen ==
    /\ disp.pc = "reopen"
    /\ srun' = [srun EXCEPT !.release_stop = FALSE]
    /\ workers' = [w \in Workers |-> worker_init]
    /\ device' = [opened |-> FALSE, queued |-> {}]
    /\ disp' = disp_init
    /\ sobs' = [sobs EXCEPT !.lost = {}, !.grabbed = {}, !.subs = subs_init,
                            !.skipped = {}, !.inited = FALSE]
    /\ UNCHANGED <<cfg, ring, releasers, release_mutex, now, bobs>>
    /\ UNCHANGED <<drm_vars, capture_vars>>

(***************************************************************************)
(* Stream loop: the releaser threads (stream.c:244-260), the encoder       *)
(* workers and the consumer of the ring.                                   *)
(***************************************************************************)
\* stream.c:246: the loop condition
ReleaserCheck(i) ==
    /\ releasers[i].pc = "check"
    /\ releasers' = [releasers EXCEPT ![i].pc = IF srun.release_stop THEN "break" ELSE "get"]
    /\ UNCHANGED <<srun, cfg, ring, disp, workers, release_mutex, device, now, sobs, bobs>>
    /\ UNCHANGED <<drm_vars, capture_vars>>

\* a faulty us_queue_get that reads the buffer and leaves it in the queue
ReleaserGetPeeks(i) ==
    /\ releasers[i].pc = "get"
    /\ releasers' = [releasers EXCEPT ![i] =
                        IF Len(@.queue) > 0
                        THEN [pc |-> "lock", queue |-> @.queue, hw |-> Head(@.queue)]
                        ELSE [@ EXCEPT !.pc = "check"]]
    /\ UNCHANGED <<srun, cfg, ring, disp, workers, release_mutex, device, now, sobs, bobs>>
    /\ UNCHANGED <<drm_vars, capture_vars>>

\* stream.c:248: us_queue_get(queue, &hw, 0.1) takes the buffer or times out
ReleaserGet(i) ==
    /\ releasers[i].pc = "get"
    /\ releasers' = [releasers EXCEPT ![i] =
                        IF Len(@.queue) > 0
                        THEN [pc |-> "lock", queue |-> Tail(@.queue), hw |-> Head(@.queue)]
                        ELSE [@ EXCEPT !.pc = "check"]]
    /\ UNCHANGED <<srun, cfg, ring, disp, workers, release_mutex, device, now, sobs, bobs>>
    /\ UNCHANGED <<drm_vars, capture_vars>>

\* stream.c:249: US_MUTEX_LOCK
ReleaserLock(i) ==
    /\ releasers[i].pc = "lock"
    /\ release_mutex = 0
    /\ release_mutex' = i + 1
    /\ releasers' = [releasers EXCEPT ![i].pc = "release"]
    /\ UNCHANGED <<srun, cfg, ring, disp, workers, device, now, sobs, bobs>>
    /\ UNCHANGED <<drm_vars, capture_vars>>

\* a faulty releaser that keeps the mutex when the release has failed
ReleaserReleaseKeepsLock(i) ==
    /\ releasers[i].pc = "release"
    /\ \E released \in {0, -1} :
        /\ device' = [device EXCEPT !.queued =
                        IF released = 0 THEN @ \cup {releasers[i].hw} ELSE @]
        /\ sobs' = [sobs EXCEPT !.lost =
                        IF released = 0 THEN @ ELSE @ \cup {releasers[i].hw}]
        /\ releasers' = [releasers EXCEPT ![i].hw = NoHw,
                                          ![i].pc = IF released < 0 THEN "break" ELSE "check"]
        /\ release_mutex' = IF released < 0 THEN release_mutex ELSE 0
    /\ UNCHANGED <<srun, cfg, ring, disp, workers, now, bobs>>
    /\ UNCHANGED <<drm_vars, capture_vars>>

\* stream.c:250-254: us_device_release_buffer gives the buffer back to the
\* driver, or fails; the mutex is unlocked; a failure leaves the loop
ReleaserRelease(i) ==
    /\ releasers[i].pc = "release"
    /\ \E released \in {0, -1} :
        /\ device' = [device EXCEPT !.queued =
                        IF released = 0 THEN @ \cup {releasers[i].hw} ELSE @]
        /\ sobs' = [sobs EXCEPT !.lost =
                        IF released = 0 THEN @ ELSE @ \cup {releasers[i].hw}]
        /\ releasers' = [releasers EXCEPT ![i].hw = NoHw,
                                          ![i].pc = IF released < 0 THEN "break" ELSE "check"]
    /\ release_mutex' = 0
    /\ UNCHANGED <<srun, cfg, ring, disp, workers, now, bobs>>
    /\ UNCHANGED <<drm_vars, capture_vars>>

\* a faulty releaser that ends without telling the others
ReleaserExitSilent(i) ==
    /\ releasers[i].pc = "break"
    /\ releasers' = [releasers EXCEPT ![i].pc = "exited"]
    /\ UNCHANGED <<srun, cfg, ring, disp, workers, release_mutex, device, now, sobs, bobs>>
    /\ UNCHANGED <<drm_vars, capture_vars>>

\* stream.c:257-259: the thread sets the stop flag of all releasers and ends
ReleaserExit(i) ==
    /\ releasers[i].pc = "break"
    /\ srun' = [srun EXCEPT !.release_stop = TRUE]
    /\ releasers' = [releasers EXCEPT ![i].pc = "exited"]
    /\ UNCHANGED <<cfg, ring, disp, workers, release_mutex, device, now, sobs, bobs>>
    /\ UNCHANGED <<drm_vars, capture_vars>>

\* an assigned worker finishes its job, failed or not, timely or not
WorkerFinish(w) ==
    /\ workers[w].busy
    /\ \E status \in {"failed", "late", "timely"} :
        workers' = [workers EXCEPT ![w].busy = FALSE, ![w].failed = (status = "failed"),
                                   ![w].timely = (status = "timely")]
    /\ UNCHANGED <<srun, cfg, ring, disp, releasers, release_mutex, device, now, sobs, bobs>>
    /\ UNCHANGED <<drm_vars, capture_vars>>

\* the HTTP server takes a filled slot of the ring
RingConsumerAcquire ==
    /\ ring.filled > 0
    /\ ~ring.consumer
    /\ ring' = [ring EXCEPT !.filled = @ - 1, !.consumer = TRUE]
    /\ UNCHANGED <<srun, cfg, disp, workers, releasers, release_mutex, device, now, sobs, bobs>>
    /\ UNCHANGED <<drm_vars, capture_vars>>

\* the HTTP server gives its slot back
RingConsumerRelease ==
    /\ ring.consumer
    /\ ring' = [ring EXCEPT !.free = @ + 1, !.consumer = FALSE]
    /\ UNCHANGED <<srun, cfg, disp, workers, releasers, release_mutex, device, now, sobs, bobs>>
    /\ UNCHANGED <<drm_vars, capture_vars>>

(***************************************************************************)
(* Stream loop: _stream_expose_frame as one call with the clock running    *)
(* (stream.c:358-418), for the blank fallback.                             *)
(***************************************************************************)
\* the calls since the last alive frame: prev = the previous call ("none",
\* "alive", "null"); tt = the clock read at stream.c:374 in the first NULL
\* call after an alive one (-1: none); nulls, blanks = NULL calls and blank
\* frames published since then; late = one of these calls read, at
\* stream.c:387, a clock after tt + last_as_blank
bobs_init == [prev |-> "none", tt |-> -1, nulls |-> 0, blanks |-> 0, late |-> FALSE]

ObsBlankCall(o, last_as_blank, alive, dest, now1, now2) ==
    IF alive THEN [bobs_init EXCEPT !.prev = "alive"]
    ELSE IF o.prev = "alive"
    THEN [prev |-> "null", tt |-> now1, nulls |-> 1,
          blanks |-> IF dest = "blank" THEN 1 ELSE 0,
          late |-> now2 > now1 + last_as_blank]
    ELSE IF o.tt < 0 THEN [o EXCEPT !.prev = "null"]
    ELSE [prev |-> "null", tt |-> o.tt,
          nulls |-> IF o.nulls < MaxCalls THEN o.nulls + 1 ELSE o.nulls,
          blanks |-> IF dest = "blank" /\ o.blanks < MaxCalls THEN o.blanks + 1 ELSE o.blanks,
          late |-> o.late \/ now2 > o.tt + last_as_blank]

\* _stream_expose_frame(stream, frame) with no stop and a free slot in the
\* ring; the clock reads of one call are at most a second apart
ExposeFrameCall ==
    /\ ~stream_is_stopped(srun)
    /\ ring_producer_acquire(ring).ri >= 0
    /\ \E alive \in BOOLEAN, dt \in {0, 1} :
        /\ now + dt <= MaxNow
        /\ LET ch == expose_choose(srun, alive, cfg.last_as_blank, now, now + dt) IN
            /\ srun' = expose_finish(ch.run, alive)
            /\ sobs' = [sobs EXCEPT !.published = expose_dest(ch.new)]
            /\ bobs' = ObsBlankCall(bobs, cfg.last_as_blank, alive, expose_dest(ch.new),
                                    now, now + dt)
        /\ now' = now + dt
    /\ ring' = ring_producer_release(ring_producer_acquire(ring).ring)
    /\ UNCHANGED <<cfg, disp, workers, releasers, release_mutex, device>>
    /\ UNCHANGED <<drm_vars, capture_vars>>

\* a second passes
Tick ==
    /\ now < MaxNow
    /\ now' = now + 1
    /\ UNCHANGED <<srun, cfg, ring, disp, workers, releasers, release_mutex, device, sobs, bobs>>
    /\ UNCHANGED <<drm_vars, capture_vars>>

(***************************************************************************)
(* Stream loop: _stream_is_stopped with the exit timer (stream.c:266-285). *)
(***************************************************************************)
\* us_get_now_monotonic() in ticks
NowTicks == now * TicksPerSecond + subsec

\* a faulty _stream_is_stopped that fires without setting the timer again
stream_is_stopped_timed_no_reset(r, exit_on_no_clients, now_sec, now_sub, clients) ==
    IF r.stop THEN [run |-> r, ret |-> TRUE, suicide |-> FALSE, stored |-> FALSE]
    ELSE IF exit_on_no_clients > 0 /\ clients
    THEN [run |-> [r EXCEPT !.http_last_request_ts = now_sec], ret |-> FALSE,
          suicide |-> FALSE, stored |-> TRUE]
    ELSE IF /\ exit_on_no_clients > 0
            /\ (r.http_last_request_ts + exit_on_no_clients) * TicksPerSecond
                    < now_sec * TicksPerSecond + now_sub
    THEN [run |-> r, ret |-> FALSE, suicide |-> TRUE, stored |-> FALSE]
    ELSE [run |-> r, ret |-> FALSE, suicide |-> FALSE, stored |-> FALSE]

\* _stream_is_stopped: now_ts = now_sec + now_sub / TicksPerSecond is the
\* clock read at stream.c:273, clients = _stream_has_any_clients(). The
\* timestamp is kept in whole seconds (ull), so storing now_ts drops its
\* fraction; the comparison at line 277 is made with the fraction.
\* suicide = us_process_suicide() was called, stored = the timestamp was
\* stored.
stream_is_stopped_timed(r, exit_on_no_clients, now_sec, now_sub, clients) ==
    IF r.stop THEN [run |-> r, ret |-> TRUE, suicide |-> FALSE, stored |-> FALSE]
    ELSE IF exit_on_no_clients > 0 /\ clients
    THEN [run |-> [r EXCEPT !.http_last_request_ts = now_sec], ret |-> FALSE,
          suicide |-> FALSE, stored |-> TRUE]
    ELSE IF /\ exit_on_no_clients > 0
            /\ (r.http_last_request_ts + exit_on_no_clients) * TicksPerSecond
                    < now_sec * TicksPerSecond + now_sub
    THEN [run |-> [r EXCEPT !.http_last_request_ts = now_sec], ret |-> FALSE,
          suicide |-> TRUE, stored |-> TRUE]
    ELSE [run |-> r, ret |-> FALSE, suicide |-> FALSE, stored |-> FALSE]

\* the calls of _stream_is_stopped so far: started = us_stream_loop has
\* stored the clock (stream.c:122); call = the last step was a call;
\* suicide, clients = what that call did and saw; activity = the clock, in
\* ticks, when the timestamp was last stored; fires = us_process_suicide
\* calls; parity = the number of calls is odd
xobs_init ==
    [started |-> FALSE, call |-> FALSE, suicide |-> FALSE, clients |-> FALSE,
     activity |-> 0, fires |-> 0, parity |-> FALSE]

\* stream.c:122: us_stream_loop stores the clock as the last request time
ExitLoopEnter ==
    /\ ~xobs.started
    /\ srun' = [srun EXCEPT !.http_last_request_ts = now]
    /\ xobs' = [xobs_init EXCEPT !.started = TRUE, !.activity = NowTicks]
    /\ UNCHANGED <<cfg, ring, disp, workers, releasers, release_mutex, device, now, sobs, bobs>>
    /\ UNCHANGED <<drm_vars, subsec, cap, cobs>>

\* one call of _stream_is_stopped
ExitIsStopped ==
    /\ xobs.started
    /\ \E clients \in BOOLEAN :
        LET res == stream_is_stopped_timed(srun, cfg.exit_on_no_clients, now, subsec, clients)
        IN  /\ srun' = res.run
            /\ xobs' = [started |-> TRUE, call |-> TRUE, suicide |-> res.suicide,
                        clients |-> clients,
                        activity |-> IF res.stored THEN NowTicks ELSE xobs.activity,
                        fires |-> IF res.suicide /\ xobs.fires < MaxFires
                                  THEN xobs.fires + 1 ELSE xobs.fires,
                        parity |-> ~xobs.parity]
    /\ UNCHANGED <<cfg, ring, disp, workers, releasers, release_mutex, device, now, sobs, bobs>>
    /\ UNCHANGED <<drm_vars, subsec, cap, cobs>>

\* a tick of the clock passes
TickSub ==
    /\ NowTicks + 1 < (MaxNow + 1) * TicksPerSecond
    /\ subsec' = (subsec + 1) % TicksPerSecond
    /\ now' = IF subsec + 1 = TicksPerSecond THEN now + 1 ELSE now
    /\ xobs' = [xobs EXCEPT !.call = FALSE, !.suicide = FALSE, !.clients = FALSE]
    /\ UNCHANGED <<srun, cfg, ring, disp, workers, releasers, release_mutex, device, sobs, bobs>>
    /\ UNCHANGED <<drm_vars, cap, cobs>>

(***************************************************************************)
(* Stream loop: one iteration of the RUNNING loop as three calls, with the *)
(* clock running, for the frame accounting and the H.264 key frames        *)
(* (stream.c:142-217, 297-307). The H.264 stream exists (run->h264).       *)
(***************************************************************************)
\* the locals of us_stream_loop at stream.c:142-145, and h264_force_key;
\* times are in ticks. pc: "init" = _stream_init_loop, "top" = stream.c:149,
\* "slowdown" = stream.c:170, "grab" = stream.c:175, "done" = returned
cap_init ==
    [pc |-> "init", grab_after |-> 0, captured_fps_accum |-> 0, captured_fps_ts |-> 0,
     h264_force_key |-> FALSE]

\* what was seen so far: key_due = _stream_slowdown has returned true and no
\* raw frame was given to the H.264 stream since; puts = the parity of the
\* number of raw frames given to it; put_key, put_blank = the force_key of
\* the last one and whether it was the blank; slept = the sleeps of the last
\* _stream_slowdown; frames = the parity of the number of frames assigned;
\* sec, accum = the second of the last frame assigned (-1: none) and the
\* counter after it; run_sec = the same second if that frame was assigned
\* since the device was last opened; grabs, skips = the parity of the number
\* of frames grabbed, and of those released at once for fluency
cobs_init ==
    [key_due |-> FALSE, puts |-> FALSE, put_key |-> FALSE, put_blank |-> FALSE,
     slept |-> 0, frames |-> FALSE, sec |-> -1, accum |-> 0, run_sec |-> -1,
     grabs |-> FALSE, skips |-> FALSE]

\* us_floor_ms: the whole second of a time in ticks
us_floor_ms(now_ts) == now_ts \div TicksPerSecond

\* _stream_slowdown: clients_at, stopped_at = the first test of the loop
\* condition (0..9) at which a client, a stop is seen, SlowdownSteps if at
\* none; sleeps = the usleep(100000) calls made
stream_slowdown(slowdown, clients_at, stopped_at) ==
    LET count == IF clients_at < stopped_at THEN clients_at ELSE stopped_at IN
    IF slowdown THEN [ret |-> count >= SlowdownSteps, sleeps |-> count]
    ELSE [ret |-> FALSE, sleeps |-> 0]

\* a faulty frame count that is not set back when a new second has come
capture_account_no_reset(c, now_sec_ts) ==
    IF now_sec_ts # c.captured_fps_ts
    THEN [cap |-> [c EXCEPT !.captured_fps_accum = @ + 1, !.captured_fps_ts = now_sec_ts],
          published |-> TRUE, fps |-> c.captured_fps_accum]
    ELSE [cap |-> [c EXCEPT !.captured_fps_accum = @ + 1], published |-> FALSE, fps |-> 0]

\* stream.c:198-205: the frames of the second are published when a frame
\* comes in another second, and the frame is counted
capture_account(c, now_sec_ts) ==
    IF now_sec_ts # c.captured_fps_ts
    THEN [cap |-> [c EXCEPT !.captured_fps_accum = 1, !.captured_fps_ts = now_sec_ts],
          published |-> TRUE, fps |-> c.captured_fps_accum]
    ELSE [cap |-> [c EXCEPT !.captured_fps_accum = @ + 1], published |-> FALSE, fps |-> 0]

\* a faulty pacing that also skips the frame that comes exactly at grab_after
capture_pace_skips_on_time(c, now_ts, fluency_delay) ==
    IF now_ts <= c.grab_after
    THEN [cap |-> c, released |-> TRUE, assigned |-> FALSE, published |-> FALSE, fps |-> 0]
    ELSE LET a == capture_account(c, us_floor_ms(now_ts)) IN
         [cap |-> [a.cap EXCEPT !.grab_after = now_ts + fluency_delay],
          released |-> FALSE, assigned |-> TRUE, published |-> a.published, fps |-> a.fps]

\* stream.c:186-217, a grabbed frame at the time now_ts: released at once
\* when it comes before grab_after, else counted, assigned and given to the
\* sinks and, with h264_force_key, to the H.264 stream
capture_pace(c, now_ts, fluency_delay) ==
    IF now_ts < c.grab_after
    THEN [cap |-> c, released |-> TRUE, assigned |-> FALSE, published |-> FALSE, fps |-> 0]
    ELSE LET a == capture_account(c, us_floor_ms(now_ts)) IN
         [cap |-> [a.cap EXCEPT !.grab_after = now_ts + fluency_delay],
          released |-> FALSE, assigned |-> TRUE, published |-> a.published, fps |-> a.fps]

\* _stream_init_loop (stream.c:309-356) until the device is open, then the
\* locals of the RUNNING loop are set; every iteration gives the blank to the
\* H.264 stream with force_key = false (stream.c:326)
CapInit ==
    /\ cap.pc = "init"
    /\ IF stream_is_stopped(srun)
       THEN /\ cap' = [cap EXCEPT !.pc = "done"]
            /\ cobs' = cobs
       ELSE /\ cap' = [cap_init EXCEPT !.pc = "top"]
            /\ cobs' = [cobs EXCEPT !.puts = ~@, !.put_key = FALSE, !.put_blank = TRUE,
                                    !.key_due = FALSE, !.run_sec = -1]
    /\ UNCHANGED <<srun, cfg, ring, disp, workers, releasers, release_mutex, device, now,
                   sobs, bobs>>
    /\ UNCHANGED <<drm_vars, subsec, xobs>>

\* stream.c:149-168: the loop condition; release_stop = a releaser has
\* failed; then the ready worker is waited for
CapTop ==
    /\ cap.pc = "top"
    /\ \E release_stop \in BOOLEAN :
        cap' = [cap EXCEPT !.pc = IF stream_is_stopped(srun) \/ release_stop
                                  THEN "init" ELSE "slowdown"]
    /\ UNCHANGED <<srun, cfg, ring, disp, workers, releasers, release_mutex, device, now,
                   sobs, bobs>>
    /\ UNCHANGED <<drm_vars, subsec, xobs, cobs>>

\* stream.c:170-173: h264_force_key = _stream_slowdown(stream), and the
\* stop check after it; the clock advances by the sleeps, 100 ms each
CapSlowdown ==
    /\ cap.pc = "slowdown"
    /\ \E clients_at \in {0, 1, SlowdownSteps} :
        LET sl == stream_slowdown(cfg.slowdown, clients_at,
                                  IF stream_is_stopped(srun) THEN 0 ELSE SlowdownSteps)
            after == NowTicks + (sl.sleeps * TicksPerSecond) \div SlowdownSteps
        IN  /\ after < (MaxNow + 1) * TicksPerSecond
            /\ now' = after \div TicksPerSecond
            /\ subsec' = after % TicksPerSecond
            /\ cap' = [cap EXCEPT !.h264_force_key = sl.ret,
                                  !.pc = IF stream_is_stopped(srun) THEN "init" ELSE "grab"]
            /\ cobs' = [cobs EXCEPT !.slept = sl.sleeps, !.key_due = @ \/ sl.ret]
    /\ UNCHANGED <<srun, cfg, ring, disp, workers, releasers, release_mutex, device,
                   sobs, bobs>>
    /\ UNCHANGED <<drm_vars, xobs>>

\* stream.c:175-217: us_device_grab_buffer returns a frame, a broken frame
\* (-3) or fails (-2, -1); a frame is paced
CapGrab ==
    /\ cap.pc = "grab"
    /\ \/ \E buf_index \in {-3, -1} :
            /\ cap' = [cap EXCEPT !.pc = IF buf_index = -3 THEN "top" ELSE "init"]
            /\ UNCHANGED <<srun, cobs>>
       \/ \E fluency_delay \in {0, MaxDelay} :
            LET p == capture_pace(cap, NowTicks, fluency_delay) IN
            /\ p.cap.captured_fps_accum <= MaxFrames
            /\ cap' = [p.cap EXCEPT !.pc = "top"]
            /\ srun' = IF p.published THEN [srun EXCEPT !.http_captured_fps = p.fps]
                       ELSE srun
            /\ cobs' = IF p.assigned
                       THEN [cobs EXCEPT !.puts = ~@, !.put_key = cap.h264_force_key,
                                         !.put_blank = FALSE, !.key_due = FALSE,
                                         !.frames = ~@, !.sec = now, !.run_sec = now,
                                         !.accum = p.cap.captured_fps_accum,
                                         !.grabs = ~@]
                       ELSE [cobs EXCEPT !.grabs = ~@,
                                         !.skips = IF p.released THEN ~@ ELSE @]
    /\ UNCHANGED <<cfg, ring, disp, workers, releasers, release_mutex, device, now,
                   sobs, bobs>>
    /\ UNCHANGED <<drm_vars, subsec, xobs>>

(***************************************************************************)
(* DRM: _find_best_mode alone (drm.c:616-655), over all short mode lists.  *)
(***************************************************************************)
M1080i60(pref) == Mode(1920, 1080, 74250, 2200, 1125, TRUE, pref)

\* the modes a connector's list is made of
ModeChoices ==
    {M1080p60(FALSE), M1080p50(FALSE), M1080p50(TRUE), M1080i60(TRUE), M1080i60(FALSE),
     M1200p60(FALSE), M720p60(TRUE)}

\* conn->modes: every list of up to MaxModes of them
AllModeLists == UNION {[1..n -> ModeChoices] : n \in 0..MaxModes}

\* the sources a mode is looked for: the devices, and one of 50 Hz
ModeRequests ==
    Devs \cup {[format |-> "RGB24", width |-> 1920, height |-> 1080, hz |-> 50000,
                n_bufs |-> DevBufs]}

\* _find_best_mode(conn, width, height, hz) as _drm_find_sink calls it
\* (drm.c:578): drm_call.ret = the index of the mode returned, 0 for NULL
ModeSelect ==
    /\ \E dev \in ModeRequests :
        drm_call' = [Call("find_best_mode",
                          find_best_mode(monitor.modes, dev.width, dev.height,
                                         dev.hz \div 1000),
                          FALSE, FALSE, "-") EXCEPT !.dev = dev]
    /\ UNCHANGED <<run, display, monitor, kms, obs, stream_vars>>

\* another display is plugged into the port
ConnectorChange ==
    /\ \E modes \in AllModeLists : monitor' = [monitor EXCEPT !.modes = modes]
    /\ drm_call' = EnvCall
    /\ UNCHANGED <<run, display, kms, obs, stream_vars>>

(***************************************************************************)
(* Initial states and specifications.                                      *)
(***************************************************************************)
\* the stream after us_stream_init with the options options_cfg
InitStreamWith(options_cfg) ==
    /\ srun = us_stream_init
    /\ cfg = options_cfg
    /\ ring = ring_init
    /\ disp = disp_init
    /\ workers = [w \in Workers |-> worker_init]
    /\ releasers = [i \in Bufs |-> releaser_init]
    /\ release_mutex = 0
    /\ device = [opened |-> FALSE, queued |-> {}]
    /\ now = 1
    /\ sobs = [published |-> "none", lost |-> {}, grabbed |-> {}, subs |-> subs_init,
               skipped |-> {}, inited |-> FALSE,
               alog |-> alog_init]
    /\ bobs = bobs_init
    /\ subsec = 0
    /\ xobs = xobs_init
    /\ cap = cap_init
    /\ cobs = cobs_init

\* the options us_stream_init sets: last_as_blank = -1, no slowdown, no exit
\* timer
default_cfg == [last_as_blank |-> -1, slowdown |-> FALSE, exit_on_no_clients |-> 0]

\* a DRM runtime that is never opened
InitDrmIdle ==
    /\ run = us_drm_init
    /\ display = "c"
    /\ monitor = [modes |-> << >>, dpms |-> FALSE]
    /\ kms = [busy |-> FALSE, events |-> 0, undone |-> FALSE]
    /\ drm_call = EnvCall
    /\ obs = [opens |-> 0, logs |-> 0, latched |-> FALSE, raced |-> FALSE, closes |-> 0]

InitDrm ==
    /\ run = us_drm_init
    /\ display \in {"c", "d", "u"}
    /\ monitor \in [modes : ModeLists, dpms : BOOLEAN]
    /\ kms = [busy |-> FALSE, events |-> 0, undone |-> FALSE]
    /\ drm_call = EnvCall
    /\ obs = [opens |-> 0, logs |-> 0, latched |-> FALSE, raced |-> FALSE, closes |-> 0]

NextDrm ==
    \/ DrmOpen
    \/ DrmClose
    \/ DrmWaitForVsync
    \/ DrmExposeStub
    \/ DrmExposeDma
    \/ DrmDpmsPowerOff
    \/ DisplayChange
    \/ FlipComplete

\* the DRM engine alone, the stream idle
InitDrmOnly ==
    /\ InitDrm
    /\ InitStreamWith(default_cfg)

SpecDrm == InitDrmOnly /\ [][NextDrm]_vars

\* the dispatcher
Dispatcher ==
    \/ InitLoopTop
    \/ ExposeRetry
    \/ ExposeWrite
    \/ InitAccess
    \/ InitSleep
    \/ StartReleasers
    \/ RunTop
    \/ PoolWait
    \/ ReleaseReady
    \/ ClearReady
    \/ Slowdown
    \/ AfterSlowdown
    \/ Grab
    \/ Pace
    \/ Close
    \/ Join
    \/ Reopen

Releaser(i) ==
    \/ ReleaserCheck(i)
    \/ ReleaserGet(i)
    \/ ReleaserLock(i)
    \/ ReleaserRelease(i)
    \/ ReleaserExit(i)

RingConsumer ==
    \/ RingConsumerAcquire
    \/ RingConsumerRelease

Init ==
    /\ InitDrmIdle
    /\ \E sl \in BOOLEAN : InitStreamWith([default_cfg EXCEPT !.slowdown = sl])

Next ==
    \/ LoopBreak
    \/ Dispatcher
    \/ \E i \in Bufs : Releaser(i)
    \/ \E w \in Workers : WorkerFinish(w)
    \/ RingConsumer

\* the stream loop with its threads
Spec == Init /\ [][Next]_vars

\* the threads are scheduled again and again, an assigned worker finishes,
\* and the calls of the dispatcher (pool wait, grab, sleep) return
Fairness ==
    /\ WF_vars(Dispatcher)
    /\ \A i \in Bufs : WF_vars(Releaser(i))
    /\ \A w \in Workers : WF_vars(WorkerFinish(w))

FairSpec == Spec /\ Fairness

\* the same, with an HTTP server that keeps consuming the ring
FairSpecConsumer == Spec /\ Fairness /\ WF_vars(RingConsumer)

InitExpose ==
    /\ InitDrmIdle
    /\ \E lab \in -1..2 : InitStreamWith([default_cfg EXCEPT !.last_as_blank = lab])

NextExpose ==
    \/ ExposeFrameCall
    \/ Tick
    \/ RingConsumer

\* a sequence of _stream_expose_frame calls with the clock running
SpecExpose == InitExpose /\ [][NextExpose]_vars

InitMode ==
    /\ InitDrmIdle
    /\ InitStreamWith(default_cfg)

NextMode ==
    \/ ModeSelect
    \/ ConnectorChange

\* mode selection over every display and source
SpecMode == InitMode /\ [][NextMode]_vars

InitExit ==
    /\ InitDrmIdle
    /\ \E n \in 0..MaxExit : InitStreamWith([default_cfg EXCEPT !.exit_on_no_clients = n])

NextExit ==
    \/ ExitLoopEnter
    \/ ExitIsStopped
    \/ TickSub
    \/ LoopBreak

\* the _stream_is_stopped calls of a us_stream_loop with the clock running
SpecExit == InitExit /\ [][NextExit]_vars

InitCapture ==
    /\ InitDrmIdle
    /\ \E sl \in BOOLEAN : InitStreamWith([default_cfg EXCEPT !.slowdown = sl])

NextCapture ==
    \/ CapInit
    \/ CapTop
    \/ CapSlowdown
    \/ CapGrab
    \/ TickSub
    \/ LoopBreak

\* the iterations of the RUNNING loop with the clock running
SpecCapture == InitCapture /\ [][NextCapture]_vars

(***************************************************************************)
(* Properties of the DRM engine, checked under SpecDrm.                    *)
(***************************************************************************)
\* a flip the kernel accepted whose event the handler has not run for
FlipOutstanding == kms.busy \/ kms.events > 0

\* C5 (as the spec states it): has_vsync turns from false to true only in the
\* page-flip event handler, and it is never true while a submitted flip has
\* not delivered its event.
C5_OnlyHandlerSetsVsync ==
    /\ [][(~run.has_vsync /\ run'.has_vsync) => drm_call'.cb]_vars
    /\ [](run.has_vsync => ~FlipOutstanding)

\* C5 (what the code does): has_vsync turns from false to true only in the
\* page-flip event handler or in us_drm_close (which open's error and
\* unplugged paths also run); and while the device is open and no expose was
\* submitted before the previous flip was waited for, has_vsync is never true
\* while a flip is outstanding.
C5_VsyncSetByHandlerOrClose ==
    /\ [][(~run.has_vsync /\ run'.has_vsync) => (drm_call'.cb \/ drm_call'.closed)]_vars
    /\ []((run.fd >= 0 /\ ~obs.raced /\ run.has_vsync) => ~FlipOutstanding)

\* C5 witness: a us_drm_close that waited for the flip of an exposed DMA
\* buffer (has_vsync was false), saw no event, and has set has_vsync to true
C5_CloseSetsVsync ==
    /\ drm_call.op = "close"
    /\ ~drm_call.cb
    /\ drm_call.ch = "c"
    /\ run.has_vsync

\* C6 (as the spec states it): exposing_dma_fd is >= 0 only between the
\* return of an expose_dma and the page-flip event of its flip.
C6_ExposingOnlyWhileFlipOutstanding ==
    run.exposing_dma_fd >= 0 => FlipOutstanding

\* C7 (as the spec states it): over the us_drm_open calls made while the
\* display stays disconnected, "Display is not plugged" is logged exactly once.
C7_LoggedExactlyOnce ==
    obs.opens >= 1 => obs.logs = 1

\* C7 (what the code does): over the us_drm_open calls that read 'd' during
\* one disconnection the message is logged once, by the first of them, if the
\* latch was clear when the display went away, and never if it was still set;
\* the latch is cleared only by an open that succeeds.
C7_LoggedOnceUnlessLatched ==
    /\ [](obs.opens >= 1 => obs.logs = (IF obs.latched THEN 0 ELSE 1))
    /\ [][(run.unplugged_reported /\ ~run'.unplugged_reported)
            => (drm_call'.op = "open" /\ drm_call'.ret >= 0)]_vars

\* C7 witness: two opens during one disconnection, one message
C7_TwoOpensOneLog ==
    /\ obs.opens = 2
    /\ obs.logs = 1
    /\ ~obs.latched
    /\ run.unplugged_reported
    /\ drm_call.op = "open"

\* the public calls that C8 names
StatusCheckedOps ==
    {"open", "expose_stub", "expose_dma", "wait_for_vsync", "dpms_power_off"}

\* C8 (as the spec states it): every public call whose status check reads 'd'
\* returns -2 and leaves the unplugged_reported latch set.
C8_UnpluggedReturnsMinus2AndLatches ==
    (drm_call.op \in StatusCheckedOps /\ drm_call.ch = "d")
        => (drm_call.ret = -2 /\ run.unplugged_reported)

\* C8 (what the code does): a public call whose status check reads 'd' does
\* nothing else; us_drm_open, us_drm_expose_stub, us_drm_expose_dma and
\* us_drm_wait_for_vsync return -2 and us_drm_dpms_power_off returns 0; only
\* us_drm_open sets the latch (and closes), the others leave the latch and
\* every field but status_fd as they were.
C8_UnpluggedShortCircuits ==
    [][(drm_call'.op \in StatusCheckedOps /\ drm_call'.ch = "d") =>
        /\ drm_call'.ret = (IF drm_call'.op = "dpms_power_off" THEN 0 ELSE -2)
        /\ drm_call'.op = "open" =>
            /\ run'.unplugged_reported
            /\ run'.fd < 0
            /\ drm_call'.log = ~run.unplugged_reported
        /\ drm_call'.op # "open" =>
            /\ run' = [run EXCEPT !.status_fd = run'.status_fd]
            /\ kms' = kms
      ]_vars

\* C8 witness: us_drm_expose_dma has read 'd' and returned -2 with the latch
\* still clear
C8_ExposeUnpluggedNoLatch ==
    /\ drm_call.op = "expose_dma"
    /\ drm_call.ch = "d"
    /\ drm_call.ret = -2
    /\ ~run.unplugged_reported

\* the last call was a us_drm_open of an RGB24 device that succeeded
OpenedRGB24 ==
    /\ drm_call.op = "open"
    /\ drm_call.ret >= 0
    /\ drm_call.dev # NoDev
    /\ drm_call.dev.format = "RGB24"

\* C9 (as the spec states it): an RGB24 device opens as BAD_RESOLUTION iff its
\* width differs from the mode's hdisplay or its height is greater than the
\* mode's vdisplay.
C9_BadResolutionIffTaller ==
    OpenedRGB24 =>
        (run.opened_for_stub <=>
            (drm_call.dev.width # run.mode.hdisplay
             \/ drm_call.dev.height > run.mode.vdisplay))

\* C9 (what the code does): an RGB24 device opens as BAD_RESOLUTION, with the
\* dumb stub buffers, iff its width differs from the mode's hdisplay or its
\* height is less than the mode's vdisplay; otherwise it opens for DMA with
\* one framebuffer per capture buffer.
C9_BadResolutionIffShorter ==
    OpenedRGB24 =>
        LET bad == \/ drm_call.dev.width # run.mode.hdisplay
                   \/ drm_call.dev.height < run.mode.vdisplay
        IN  /\ drm_call.ret = (IF bad THEN US_DRM_STUB_BAD_RESOLUTION ELSE 0)
            /\ run.opened_for_stub = bad
            /\ run.n_bufs = (IF bad THEN StubBufs ELSE drm_call.dev.n_bufs)
            /\ \A j \in 1..run.n_bufs : run.bufs[j].dumb_created = bad

\* C9 witness: a 1920x1200 source on a display whose only mode is 1920x1080
\* has opened for DMA
C9_TallerSourceOpensDma ==
    /\ OpenedRGB24
    /\ drm_call.dev.width = 1920
    /\ drm_call.dev.height = 1200
    /\ monitor.modes = << M1080p60(TRUE) >>
    /\ run.mode.vdisplay = 1080
    /\ drm_call.ret = 0
    /\ ~run.opened_for_stub

\* what a us_drm_open that returned ret has done, from the runtime it left
OpenOutcome(ret) ==
    IF ret = -2 THEN "unplugged"
    ELSE IF ret = -1 THEN "error"
    ELSE IF ~run.opened_for_stub THEN "dma"
    ELSE IF drm_call.dev = NoDev THEN "user"
    ELSE IF drm_call.dev.format # "RGB24" THEN "bad_format"
    ELSE "bad_resolution"

\* a us_drm_open has just returned, with a device left open iff it returned >= 0
OpenReturned ==
    /\ drm_call.op = "open"
    /\ drm_call.ret \in -2..3
    /\ (drm_call.ret >= 0) = (run.fd >= 0)
    /\ (drm_call.ret >= 0) = ~drm_call.closed

\* C10 (as the spec states it): us_drm_open returns 0 for DMA, 1 for the USER
\* stub, 2 for BAD_FORMAT, 3 for BAD_RESOLUTION, -1 for an error, -2 for
\* unplugged.
C10_ReturnCodesAsSpecified ==
    drm_call.op = "open" =>
        /\ OpenReturned
        /\ drm_call.ret = 0 <=> OpenOutcome(drm_call.ret) = "dma"
        /\ drm_call.ret = 1 <=> OpenOutcome(drm_call.ret) = "user"
        /\ drm_call.ret = 2 <=> OpenOutcome(drm_call.ret) = "bad_format"
        /\ drm_call.ret = 3 <=> OpenOutcome(drm_call.ret) = "bad_resolution"

\* C10 (what the code does): us_drm_open returns 0 for DMA, 1 for the USER
\* stub, 2 for BAD_RESOLUTION, 3 for BAD_FORMAT, -1 for an error, -2 for
\* unplugged (the display reads 'd', or a connected connector has no mode).
C10_ReturnCodesOfEnum ==
    drm_call.op = "open" =>
        /\ OpenReturned
        /\ drm_call.ret = 0 <=> OpenOutcome(drm_call.ret) = "dma"
        /\ drm_call.ret = 1 <=> OpenOutcome(drm_call.ret) = "user"
        /\ drm_call.ret = 2 <=> OpenOutcome(drm_call.ret) = "bad_resolution"
        /\ drm_call.ret = 3 <=> OpenOutcome(drm_call.ret) = "bad_format"
        /\ drm_call.ch = "d" => drm_call.ret = -2
        /\ drm_call.ch = "err" => drm_call.ret = -1
        /\ drm_call.ret = -2 =>
            /\ run.unplugged_reported
            /\ drm_call.ch = "d" \/ (drm_call.ch = "c" /\ monitor.modes = << >>)

\* C10 witness: a YUYV device has opened and us_drm_open has returned 3
C10_BadFormatReturns3 ==
    /\ drm_call.op = "open"
    /\ drm_call.ret = 3
    /\ drm_call.dev.format = "YUYV"
    /\ run.opened_for_stub
    /\ run.fd >= 0

(***************************************************************************)
(* Properties of the stream loop.                                          *)
(***************************************************************************)
\* every releaser thread has been joined and its queue destroyed
ReleasersJoined == \A i \in Bufs : releasers[i].pc = "none"

\* C1: once us_stream_loop_break has set the stop flag it stays set, and
\* us_stream_loop eventually returns with every releaser thread joined,
\* whatever phase the loop was in.
C1_StopLeadsToReturn ==
    /\ [][srun.stop => srun'.stop]_vars
    /\ (srun.stop ~> (disp.pc = "done" /\ ReleasersJoined))

\* C1 witness: the loop has returned after a stop that came while it was
\* RUNNING with a frame grabbed
C1_ReturnedAfterRunning ==
    /\ srun.stop
    /\ disp.pc = "done"
    /\ ReleasersJoined
    /\ sobs.published = "frame"

\* C2: after a run of alive frames, the NULL calls publish the blank JPEG on
\* every call from the first one when last_as_blank < 0; never when
\* last_as_blank = 0; and when last_as_blank > 0 exactly once, on the first
\* call that reads a clock after the transition time + last_as_blank, not
\* on the first call and on no earlier one.
C2_BlankFallbackTiming ==
    bobs.tt >= 0 =>
        /\ cfg.last_as_blank < 0 => bobs.blanks = bobs.nulls
        /\ cfg.last_as_blank = 0 => bobs.blanks = 0
        /\ cfg.last_as_blank > 0 => bobs.blanks = (IF bobs.late THEN 1 ELSE 0)
        /\ bobs.nulls = 1 => (bobs.blanks = 1 <=> cfg.last_as_blank < 0)
        /\ (bobs.prev = "null" /\ sobs.published = "blank" /\ cfg.last_as_blank > 0)
                => (now > bobs.tt + cfg.last_as_blank /\ srun.last_as_blank_ts = 0)

\* C2 witness: with last_as_blank = 2 the third NULL call after the alive
\* frames has published the blank, after the deadline
C2_BlankAfterDeadline ==
    /\ cfg.last_as_blank = 2
    /\ bobs.nulls = 3
    /\ bobs.blanks = 1
    /\ sobs.published = "blank"
    /\ now > bobs.tt + 2

\* the holders of the device buffer i
HeldByWorker(i) == \E w \in Workers : workers[w].hw = i
HeldByQueue(i) == Len(releasers[i].queue) > 0
HeldByDriver(i) == i \in device.queued
HeldByDispatcher(i) == disp.hw = i
HeldByReleaserThread(i) == releasers[i].hw = i

\* the worker's job still owns its buffer: the dispatcher has not yet put
\* it on the releaser's queue (between stream.c:157 and 158 job->hw is stale)
OwnedByWorker(i) ==
    \E w \in Workers :
        /\ workers[w].hw = i
        /\ ~(disp.pc = "clear" /\ disp.ready_wr = w)

Count(b) == IF b THEN 1 ELSE 0

\* the dispatcher is RUNNING or in TEARDOWN
RunningOrTeardown ==
    \/ disp.pc \in {"run_top", "wait", "release", "clear", "slowdown", "after_slowdown",
                    "grab", "pace", "close", "join", "reopen"}
    \/ (disp.pc \in {"expose_retry", "expose_write"} /\ disp.alive)

\* C3 (as the spec states it): during RUNNING and TEARDOWN every buffer that
\* was grabbed is held by exactly one of: a worker (job.hw), the releaser
\* queue of its index, the driver.
C3_ExactlyOneOfThreeHolders ==
    RunningOrTeardown =>
        \A i \in sobs.grabbed :
            Count(HeldByWorker(i)) + Count(HeldByQueue(i)) + Count(HeldByDriver(i)) = 1

\* C3 (what the code does): a buffer never has two holders among: a worker's
\* job, the dispatcher (between the grab and the assign or the put), the
\* releaser of its index (its queue, or its thread between the get and the
\* device release), the driver; and it has exactly one of them while the
\* device is open, the releaser's queue exists and no release of it failed.
C3_ExactlyOneOfFiveHolders ==
    \A i \in Bufs :
        LET n == Count(OwnedByWorker(i)) + Count(HeldByDispatcher(i))
                 + Count(HeldByQueue(i)) + Count(HeldByReleaserThread(i))
                 + Count(HeldByDriver(i))
        IN  /\ n <= 1
            /\ (device.opened /\ releasers[i].pc # "none" /\ i \notin sobs.lost) => n = 1

\* C3 witness: during RUNNING one buffer is in the dispatcher's hands, just
\* grabbed, while the other is with its releaser thread
C3_DispatcherAndReleaserHold ==
    /\ disp.pc = "pace"
    /\ HeldByDispatcher(0)
    /\ HeldByReleaserThread(1)
    /\ sobs.grabbed = Bufs
    /\ sobs.lost = {}

\* C4: _stream_expose_frame leaves its retry loop only with a slot (the
\* frame is then written and the slot released) or on a stop (nothing is
\* published); a stop seen during the retry ends it at the next turn; and
\* with a consumer that keeps freeing slots the retry always ends.
C4_RetryUntilSlotOrStop ==
    /\ [][(disp.pc = "expose_retry" /\ disp' # disp) =>
            IF srun.stop
            THEN /\ disp'.pc = expose_return_pc(disp.alive)
                 /\ ring' = ring
                 /\ sobs' = sobs
                 /\ srun' = srun
            ELSE /\ disp'.pc = "expose_write"
                 /\ ring.free > 0
                 /\ ring'.producer
         ]_vars
    /\ [][(disp.pc = "expose_write" /\ disp' # disp) =>
            /\ sobs'.published = expose_dest(disp.new)
            /\ ring'.filled = ring.filled + 1
            /\ ~ring'.producer
            /\ disp'.pc = expose_return_pc(disp.alive)
         ]_vars
    /\ ((disp.pc = "expose_retry" /\ ring.free = 0) ~> disp.pc # "expose_retry")

\* C4 witness: the dispatcher is in the retry with no free slot and no stop
C4_RetryingOnFullRing ==
    /\ disp.pc = "expose_retry"
    /\ ring.free = 0
    /\ ~ring.consumer
    /\ ring.filled = RingSlots
    /\ ~srun.stop
    /\ disp.alive

\* the closed state of the runtime, in the fields C11 names
Closed(r) ==
    /\ r.fd = -1
    /\ r.status_fd = -1
    /\ r.bufs = << >>
    /\ r.n_bufs = 0
    /\ ~r.saved_crtc
    /\ r.has_vsync
    /\ r.exposing_dma_fd = -1
    /\ r.stub_n_buf = 0
    /\ r.dpms_state = -1

\* C11: every us_drm_close, the explicit one and the one run by the error and
\* unplugged paths of us_drm_open, leaves fd = -1, status_fd = -1, no buffers,
\* n_bufs = 0, no saved CRTC, has_vsync = true, exposing_dma_fd = -1,
\* stub_n_buf = 0 and dpms_state = -1; the runtime is in that state whenever
\* fd < 0, the precondition of us_drm_open; and a close of a closed runtime
\* changes nothing.
C11_CloseEndsClosed ==
    /\ [][drm_call'.closed => Closed(run')]_vars
    /\ [](run.fd < 0 => Closed(run))
    /\ [][(drm_call'.op = "close" /\ Closed(run)) => (run' = run /\ kms' = kms)]_vars

\* C11 witness: the second us_drm_close in a row after the device was open
\* for a stub (opened_for_stub and the mode are not reset by a close)
C11_SecondCloseInARow ==
    /\ drm_call.op = "close"
    /\ obs.closes = 2
    /\ Closed(run)
    /\ run.opened_for_stub
    /\ run.mode # NoMode

\* the calls that ensure DPMS power on
PowerOnOps == {"expose_stub", "expose_dma", "wait_for_vsync"}

\* the status check of the last call found the display not disconnected
PassedStatusCheck(call) == call.ch \notin {"d", "err", "-"}

\* C12: run->dpms_state is ON (1) after every us_drm_expose_stub,
\* us_drm_expose_dma and us_drm_wait_for_vsync that passes the status check;
\* it becomes OFF (0) only in us_drm_dpms_power_off; a us_drm_dpms_power_off
\* made when the state is already OFF sets no property; and one that reads a
\* disconnected display returns 0, sets no property and leaves the state.
C12_DpmsOnOffDiscipline ==
    /\ [][(drm_call'.op \in PowerOnOps /\ PassedStatusCheck(drm_call'))
            => /\ run'.dpms_state = 1
               /\ drm_call'.dpms_set \in {"on", "none"}
               /\ drm_call'.dpms_set = "on" <=> (run.dpms_id > 0 /\ run.dpms_state # 1)
         ]_vars
    /\ [][(run.dpms_state # 0 /\ run'.dpms_state = 0)
            => drm_call'.op = "dpms_power_off"]_vars
    /\ [][drm_call'.dpms_set = "off" => drm_call'.op = "dpms_power_off"]_vars
    /\ [][drm_call'.op = "dpms_power_off" =>
            /\ PassedStatusCheck(drm_call') =>
                /\ drm_call'.ret = 0
                /\ run'.dpms_state = 0
                /\ drm_call'.dpms_set = "off" <=> (run.dpms_id > 0 /\ run.dpms_state # 0)
            /\ run.dpms_state = 0 =>
                /\ drm_call'.dpms_set = "none"
                /\ run'.dpms_state = 0
            /\ drm_call'.ch = "d" =>
                /\ drm_call'.ret = 0
                /\ drm_call'.dpms_set = "none"
                /\ run'.dpms_state = run.dpms_state
         ]_vars

\* C12 witness: a us_drm_dpms_power_off on a connected display with a DPMS
\* property has set nothing, the state being OFF from the call before
C12_SecondPowerOffSetsNothing ==
    /\ drm_call.op = "dpms_power_off"
    /\ drm_call.ch = "c"
    /\ drm_call.ret = 0
    /\ drm_call.dpms_set = "none"
    /\ run.dpms_id > 0
    /\ run.dpms_state = 0

\* C13 (as the spec states it): the status check passes only when the byte
\* read is 'c'; every other byte gives the disconnected result, so the call
\* returns -2.
C13_ConnectedOnlyOnC ==
    (drm_call.op \in PowerOnOps /\ drm_call.ch \in {"d", "u"}) => drm_call.ret = -2

\* C13 (what the code does): the status check gives the disconnected result
\* only when the byte read is 'd'; every other byte ('c', or the 'u' of
\* "unknown") passes the check: the expose and vsync calls return -2 iff the
\* byte is 'd' and go on to ensure DPMS power for any other byte, and a
\* us_drm_open that reads 'u' goes on to the connector, which is not
\* connected, and returns -1 without setting the unplugged latch.
C13_DisconnectedOnlyOnD ==
    /\ [](drm_call.op \in PowerOnOps =>
            /\ drm_call.ret = -2 <=> drm_call.ch = "d"
            /\ drm_call.ch \in {"c", "u"} => run.dpms_state = 1)
    /\ [](drm_call.op = "dpms_power_off" =>
            (drm_call.ch \in {"c", "u"} => run.dpms_state = 0))
    /\ [][(drm_call'.op = "open" /\ drm_call'.ch = "u") =>
            /\ drm_call'.ret = -1
            /\ run'.unplugged_reported = run.unplugged_reported]_vars

\* C13 witness: us_drm_expose_dma has read 'u', passed the status check and
\* submitted its flip
C13_UnknownPassesCheck ==
    /\ drm_call.op = "expose_dma"
    /\ drm_call.ch = "u"
    /\ drm_call.ret = 0
    /\ kms.busy
    /\ run.exposing_dma_fd >= 0

(***************************************************************************)
(* Properties of the exit timer, checked under SpecExit.                   *)
(***************************************************************************)
\* the clock is past the whole second of the last recorded activity plus
\* exit_on_no_clients seconds
ExitDeadlinePassed ==
    NowTicks > (xobs.activity \div TicksPerSecond + cfg.exit_on_no_clients) * TicksPerSecond

C15_KeyFrameAfterSlowdown ==
    /\ [][(cobs'.puts # cobs.puts /\ ~cobs'.put_blank /\ cobs.key_due)
            => cobs'.put_key]_vars
    /\ [](cobs.slept <= SlowdownSteps)
    /\ [](~cfg.slowdown => cobs.slept = 0)

\* the step assigns a frame to a worker
FrameAssigned == cobs'.frames # cobs.frames

NullFramePublished ==
    /\ ring'.filled > ring.filled
    /\ ~srun'.last_online

\* the deadline of the last_as_blank timer that the test at stream.c:384-388
\* sees in this call: started by the call itself when the stream was online
BlankDeadline ==
    IF srun.last_online THEN now + cfg.last_as_blank ELSE srun.last_as_blank_ts

\* C16 as stated: every INIT iteration that obtains a ring slot publishes a
\* dead frame (online = false, used = 0), whatever last_as_blank is and
\* whatever was exposed before.
C16_InitPublishesDead ==
    [][NullFramePublished => sobs'.published = "dead"]_vars

\* C16 amended: an INIT iteration that obtains a ring slot publishes a dead
\* frame or the blank JPEG, never anything else: the dead frame when
\* last_as_blank = 0, the blank when last_as_blank < 0, and with
\* last_as_blank > 0 the blank exactly when the timer is running and its
\* deadline is before the clock read in the call.
C16_InitPublishesDeadOrBlank ==
    [][NullFramePublished =>
        /\ sobs'.published \in {"dead", "blank"}
        /\ (cfg.last_as_blank = 0 => sobs'.published = "dead")
        /\ (cfg.last_as_blank < 0 => sobs'.published = "blank")
        /\ (cfg.last_as_blank > 0 =>
               (sobs'.published = "blank"
                   <=> (BlankDeadline # 0 /\ BlankDeadline < now')))]_vars

\* C16 witness: with a timer configured, a second INIT iteration in a row
\* has published a dead frame while the timer was still running.
C16_DeadWhileTimerRuns ==
    /\ cfg.last_as_blank > 0
    /\ bobs.prev = "null"
    /\ bobs.nulls >= 2
    /\ srun.last_as_blank_ts # 0
    /\ sobs.published = "dead"

\* C18: under every interleaving of the dispatcher and the releasers, with a
\* device that hands out a buffer index only after its release completed,
\* the put of _stream_release_buffer never finds the queue of the index
\* full: the assertion never fails, and whenever the dispatcher is about to
\* put an index (the ready worker's buffer, or a grabbed buffer to be
\* skipped) the queue of that index is empty, whether its releaser still
\* runs or has exited.
C18_ReleasePutNeverFull ==
    /\ disp.pc # "aborted"
    /\ \A i \in Bufs : Len(releasers[i].queue) <= 1
    /\ (disp.pc = "release" => releasers[workers[disp.ready_wr].hw].queue = << >>)
    /\ (disp.pc = "pace" => releasers[disp.hw].queue = << >>)

\* C18 witness: after a release error of one releaser, the dispatcher has
\* just put the ready worker's buffer on the queue of a releaser that has
\* exited, and is about to go on.
C18_PutForExitedReleaser ==
    /\ disp.pc = "clear"
    /\ sobs.lost # {}
    /\ workers[disp.ready_wr].hw \in Bufs \ sobs.lost
    /\ releasers[workers[disp.ready_wr].hw].pc = "exited"
    /\ releasers[workers[disp.ready_wr].hw].queue = <<workers[disp.ready_wr].hw>>

\* the releasers inside us_device_release_buffer
InRelease == {i \in Bufs : releasers[i].pc = "release"}

\* C19: at most one releaser is inside the device release at any instant;
\* a releaser is inside it exactly while it holds the shared mutex, and the
\* mutex is free again once the call has returned, on success and on
\* failure alike.
C19_ReleaseUnderMutex ==
    /\ Cardinality(InRelease) <= 1
    /\ \A i \in Bufs : (releasers[i].pc = "release" <=> release_mutex = i + 1)
    /\ (InRelease = {} => release_mutex = 0)

\* C19, the second half: a releaser that holds the mutex gives it back.
C19_MutexIsGivenBack == (release_mutex # 0) ~> (release_mutex = 0)

\* C19 witness: one releaser waits for the mutex while the other is inside
\* the device release.
C19_WaitingForMutex ==
    \E i, j \in Bufs :
        /\ releasers[i].pc = "release"
        /\ releasers[j].pc = "lock"
        /\ release_mutex = i + 1

\* a device release has returned a negative value in this RUNNING period
ReleaseFailed == sobs.lost # {}

\* no releaser thread runs: each has ended, or has been joined
ReleasersEnded == \A i \in Bufs : releasers[i].pc \in {"exited", "none"}

ReadyWorker == workers[disp.ready_wr]

\* the dispatcher goes on to _stream_expose_frame with the dest of the job
ExposesDest ==
    /\ disp'.pc = "expose_retry"
    /\ disp'.alive
    /\ disp'.new = "frame"

PhaseAt(d, inited) ==
    IF d.pc = "done" THEN "STOPPED"
    ELSE IF d.pc = "init_top" /\ ~inited THEN "ENTRY"
    ELSE IF d.pc \in {"init_top", "init_access", "init_sleep"} THEN "INIT"
    ELSE IF d.pc \in {"expose_retry", "expose_write"} /\ ~d.alive THEN "INIT"
    ELSE IF d.pc \in {"close", "join", "reopen"} THEN "TEARDOWN"
    ELSE IF d.pc = "aborted" THEN "ABORTED"
    ELSE "RUNNING"

Phase == PhaseAt(disp, sobs.inited)

\* the transitions STOPPED -> INIT -> RUNNING -> TEARDOWN -> INIT | STOPPED
ChainTransitions ==
    {<<"ENTRY", "INIT">>, <<"ENTRY", "STOPPED">>, <<"INIT", "RUNNING">>,
     <<"RUNNING", "TEARDOWN">>, <<"TEARDOWN", "ENTRY">>}

\* what the steps of the loop do besides changing the state: a broken
\* frame assigns and releases nothing; a grab goes on in RUNNING or to
\* TEARDOWN; a failed access or open sleeps and stays in INIT; the loop
\* stops only with the user stop flag set
LoopStepRules ==
    /\ (disp.pc = "grab" /\ disp'.pc = "run_top") =>
            UNCHANGED <<workers, releasers, device, ring, srun>>
    /\ (disp.pc = "grab" /\ disp'.pc # "grab") => disp'.pc \in {"run_top", "pace", "close"}
    /\ (disp.pc = "init_access" /\ disp'.pc # "init_access") =>
            disp'.pc \in {"init_sleep", "start_releasers"}
    /\ (disp.pc = "init_sleep" /\ disp'.pc # "init_sleep") =>
            (disp'.pc = "init_top" /\ sobs'.inited)
    /\ (disp.pc = "reopen" /\ disp'.pc # "reopen") =>
            (disp'.pc = "init_top" /\ ~sobs'.inited)
    /\ (disp.pc # "done" /\ disp'.pc = "done") => srun.stop
    /\ (disp.pc = "done") => disp'.pc = "done"

\* C22 as stated: the loop follows only the transitions STOPPED -> INIT ->
\* RUNNING -> TEARDOWN -> INIT | STOPPED (and the rules of its steps).
C22_OnlyChainTransitions ==
    [][/\ (Phase' # Phase => <<Phase, Phase'>> \in ChainTransitions)
       /\ LoopStepRules]_vars

\* C22 amended: the loop follows only these transitions and INIT -> STOPPED,
\* which it takes when the user stop is seen by the condition of
\* _stream_init_loop after a sleep; a broken frame (-3) keeps it in RUNNING
\* with nothing assigned or released, -2 and -1 lead to TEARDOWN and then
\* to a new call of _stream_init_loop, a failed access or device open
\* sleeps and stays in INIT, and STOPPED is reached only with the user
\* stop flag set.
C22_ChainAndStopInInit ==
    [][/\ (Phase' # Phase =>
                <<Phase, Phase'>> \in ChainTransitions \cup {<<"INIT", "STOPPED">>})
       /\ LoopStepRules]_vars

\* C22 witness: with no user stop, an INIT iteration is publishing its
\* frame after a RUNNING period that had exposed an alive frame: the loop
\* has gone through a teardown and back to INIT.
C22_InitAgainAfterTeardown ==
    /\ ~srun.stop
    /\ Phase = "INIT"
    /\ disp.pc = "expose_write"
    /\ srun.last_online

\* this step is a grab that returned a frame
FrameGrabbed == cobs'.grabs # cobs.grabs

\* C23: a frame grabbed at now_ts < grab_after is released at once, is not
\* assigned, is not given to the raw sink or the H.264 stream, and leaves
\* grab_after as it was; a frame grabbed at now_ts >= grab_after is not
\* released but assigned and given to the sinks, and grab_after becomes
\* now_ts plus the fluency delay of the pool.
C23_FluencyPacing ==
    [][FrameGrabbed =>
        IF NowTicks < cap.grab_after
        THEN /\ cobs'.skips # cobs.skips
             /\ cobs'.frames = cobs.frames
             /\ cobs'.puts = cobs.puts
             /\ cap'.grab_after = cap.grab_after
        ELSE /\ cobs'.skips = cobs.skips
             /\ cobs'.frames # cobs.frames
             /\ cobs'.puts # cobs.puts
             /\ ~cobs'.put_blank
             /\ cap'.grab_after \in {NowTicks, NowTicks + MaxDelay}]_vars

\* C23 witness: a frame has been released for fluency and a frame has been
\* assigned, and the next frame is due later than now.
C23_SkippedThenAssigned ==
    /\ cobs.skips
    /\ cobs.frames
    /\ cap.grab_after > NowTicks
    /\ cap.pc = "top"

\* this step is an attempt of _stream_init_loop; its access() has failed;
\* the failure is logged
AttemptStep == disp.pc = "init_access" /\ disp'.pc # "init_access"

AccessFailedStep == AttemptStep /\ sobs'.alog.errno # 0

AccessLogged == AttemptStep /\ sobs'.alog.logged

\* what holds of every attempt: a failed access or open is followed by the
\* sleep, only a failed access is logged here, and a run of consecutive
\* failures with one errno has exactly one entry
AttemptRules ==
    /\ (AttemptStep /\ disp'.pc # "start_releasers") => disp'.pc = "init_sleep"
    /\ (AccessLogged => AccessFailedStep)
    /\ (AccessFailedStep => sobs'.alog.run_logs = 1)

\* C24 as stated: within one INIT phase a failure of access() is logged
\* only when its errno differs from the errno of the previous logged
\* failure.
C24_LoggedOnlyOnNewErrno ==
    [][/\ (AccessFailedStep /\ AccessLogged) =>
                sobs'.alog.errno # sobs.alog.last_logged
       /\ AttemptRules]_vars

\* C24 amended: within one call of _stream_init_loop a failure of access()
\* is logged exactly when its errno differs from the errno of the attempt
\* just before it, an attempt whose access() succeeded (and whose device
\* open failed), or no attempt, counting as errno 0; so a run of
\* consecutive failures with one errno has exactly one entry, and every
\* failed attempt is followed by the sleep.
C24_LoggedOnErrnoChange ==
    [][/\ (AccessFailedStep =>
                (AccessLogged <=> sobs'.alog.errno # sobs.alog.errno))
       /\ AttemptRules]_vars

\* C24 witness: the second failure in a row with one errno has not been
\* logged, and the dispatcher is about to sleep.
C24_SecondFailureSilent ==
    /\ disp.pc = "init_sleep"
    /\ sobs.alog.errno # 0
    /\ sobs.alog.errno = sobs.alog.last_logged
    /\ sobs.alog.run_logs = 1
    /\ disp.access_errno = sobs.alog.errno
    /\ ~sobs.alog.logged

\* C25: after us_drm_close has returned, the close that us_drm_open runs
\* when the initialisation of the buffers fails part-way included, every
\* framebuffer added has been removed, every dumb buffer created has been
\* destroyed and every mapping has been unmapped.
C25_CloseReleasesEveryBuffer ==
    (drm_call.op \in {"open", "close"} /\ Closed(run)) => ~kms.undone

\* the non-interlaced modes of a list, by index: all, those of the exact
\* size, those of the exact size and rate, those of the same width and a
\* smaller height, the preferred ones
Progressive(modes) == {i \in 1..Len(modes) : ~modes[i].interlace}

ExactModes(modes, width, height) ==
    {i \in Progressive(modes) : modes[i].hdisplay = width /\ modes[i].vdisplay = height}

ExactRateModes(modes, width, height, hz) ==
    {i \in ExactModes(modes, width, height) :
        hz > 0 /\ get_refresh_rate(modes[i]) = hz * 1000}

ShorterModes(modes, width, height) ==
    {i \in Progressive(modes) : modes[i].hdisplay = width /\ modes[i].vdisplay < height}

PreferredModes(modes) == {i \in Progressive(modes) : modes[i].preferred}

\* the mode of index i (0: none) is the one the priority order selects
ChosenByPriority(modes, width, height, hz, i) ==
    IF ExactRateModes(modes, width, height, hz) # {}
    THEN i \in ExactRateModes(modes, width, height, hz)
    ELSE IF ExactModes(modes, width, height) # {} THEN i \in ExactModes(modes, width, height)
    ELSE IF ShorterModes(modes, width, height) # {}
    THEN i \in ShorterModes(modes, width, height)
    ELSE IF PreferredModes(modes) # {} THEN i \in PreferredModes(modes)
    ELSE i = (IF Len(modes) > 0 THEN 1 ELSE 0)

\* C26: for every mode list and requested width, height and rate,
\* _find_best_mode returns, among the non-interlaced modes, an exact mode of
\* the matching rate, else an exact mode, else one of the same width and a
\* smaller height, else the preferred mode, else the first mode; the mode
\* returned is never an interlaced one.
C26_BestModeNeverInterlaced ==
    drm_call.op = "find_best_mode" =>
        /\ ChosenByPriority(monitor.modes, drm_call.dev.width, drm_call.dev.height,
                            drm_call.dev.hz \div 1000, drm_call.ret)
        /\ (drm_call.ret # 0 => ~monitor.modes[drm_call.ret].interlace)

\* C26, the order alone: the priority order holds of the mode returned.
C26_PriorityOrder ==
    drm_call.op = "find_best_mode" =>
        ChosenByPriority(monitor.modes, drm_call.dev.width, drm_call.dev.height,
                         drm_call.dev.hz \div 1000, drm_call.ret)

\* C27 (as the spec states it): a us_drm_open that finds the connector of the
\* port in a connection state other than CONNECTED takes the unplugged outcome:
\* it returns -2, unplugged_reported is latched and the runtime is closed.
C27_NotConnectedIsUnplugged ==
    (drm_call.op = "open" /\ drm_call.conn = "not_connected")
        => /\ drm_call.ret = -2
           /\ run.unplugged_reported
           /\ Closed(run)

\* what the code does with such a connector: the error outcome, -1, with the
\* runtime closed and unplugged_reported as it was before the call
C27_NotConnectedIsError ==
    (drm_call.op = "open" /\ drm_call.conn = "not_connected")
        => /\ drm_call.ret = -1
           /\ ~drm_call.log
           /\ Closed(run)

\* C28: in every reachable state of the DRM runtime a DMA descriptor is
\* recorded as in flight only while the runtime also waits for a vsync:
\* exposing_dma_fd >= 0 implies has_vsync = FALSE.
C28_ExposingImpliesNoVsync ==
    run.exposing_dma_fd >= 0 => ~run.has_vsync

\* C28 witness: after a us_drm_expose_dma a descriptor is recorded and the
\* runtime waits for the vsync
C28_DmaInFlight ==
    /\ drm_call.op = "expose_dma"
    /\ run.exposing_dma_fd >= 0
    /\ ~run.has_vsync

\* C30: whenever us_drm_wait_for_vsync returns 0, has_vsync is TRUE and
\* exposing_dma_fd is -1, whether it returned at once or after the event of
\* a page flip, of the last expose or of an earlier one.
C30_WaitSuccessMeansVsync ==
    (drm_call.op = "wait_for_vsync" /\ drm_call.ret = 0)
        => (run.has_vsync /\ run.exposing_dma_fd = -1)

\* C30 witness: a wait that handled the event of a page flip has returned 0
C30_WaitHandledEvent ==
    /\ drm_call.op = "wait_for_vsync"
    /\ drm_call.ret = 0
    /\ drm_call.cb

\* for a caller that waits before every expose, a successful wait also means
\* that the kernel holds no pending flip
C30_NoFlipPendingAfterWait ==
    (drm_call.op = "wait_for_vsync" /\ drm_call.ret = 0 /\ ~obs.raced)
        => ~kms.busy

\* C29: every grabbed buffer is given to _stream_release_buffer at most once
\* per grab, a buffer given to it is no longer owned by a worker's job nor
\* held by the dispatcher, and a buffer released at once for fluency is on
\* no worker's job at all.
C29_ReleasedOncePerGrab ==
    \A i \in Bufs :
        /\ sobs.subs[i] <= 1
        /\ sobs.subs[i] = 1 => (~OwnedByWorker(i) /\ ~HeldByDispatcher(i))
        /\ i \in sobs.skipped => ~HeldByWorker(i)

\* C29 witness: every buffer grabbed since the device was opened was
\* released at once for fluency, one release each, and the pool has given
\* the dispatcher the worker again, whose job has no buffer: nothing is
\* released for it
C29_WorkerAgainAfterSkip ==
    /\ disp.pc = "slowdown"
    /\ workers[disp.ready_wr].hw = NoHw
    /\ sobs.grabbed # {}
    /\ sobs.grabbed = sobs.skipped
    /\ \A i \in sobs.skipped : sobs.subs[i] = 1

\* the step of TEARDOWN that joins the releaser thread of disp.index and
\* destroys its queue
JoinStep == disp.pc = "join" /\ disp' # disp

\* C31: every buffer the dispatcher has put on a releaser's queue was passed
\* to the device-release call by that releaser before its thread is joined
\* and its queue destroyed: the queue destroyed is empty.
C31_QueueDrainedBeforeDestroy ==
    [][JoinStep => releasers[disp.index].queue = << >>]_vars

\* what the code ensures at the join: the thread has ended and holds no
\* buffer of its own; a buffer still on the queue is destroyed with it
C31_ThreadEndedBeforeDestroy ==
    [][JoinStep => /\ releasers[disp.index].pc = "exited"
                   /\ releasers[disp.index].hw = NoHw
                   /\ srun.release_stop]_vars

============================================================================
